---- MODULE Spec2Model ----
(***************************************************************************)
(* Model of truck_geometry's B-spline surface (BSplineSurface<T>):         *)
(* validated construction, knot insertion and removal, evaluation.         *)
(*                                                                         *)
(* Scalars (f64 in the source) are modelled as exact rationals <<n, d>>    *)
(* in lowest terms with d > 0; rounding error of f64 is not modelled.      *)
(* Indices are 0-based as in the source; At(s, i) reads s[i].              *)
(***************************************************************************)
EXTENDS Integers, Sequences, FiniteSets, TLC

\* ------------------------------------------------------------------------
\* Exact rational arithmetic standing for f64
\* ------------------------------------------------------------------------
Abs(n) == IF n < 0 THEN -n ELSE n

RECURSIVE Gcd(_, _)
Gcd(a, b) == IF b = 0 THEN a ELSE Gcd(b, a % b)

Rat(n, d) ==
    LET g == Gcd(Abs(n), Abs(d))
        s == IF d < 0 THEN -1 ELSE 1
    IN  <<(s * n) \div g, Abs(d) \div g>>

R(n) == <<n, 1>>
RZero == <<0, 1>>
ROne == <<1, 1>>
RAdd(x, y) == Rat(x[1] * y[2] + y[1] * x[2], x[2] * y[2])
RSub(x, y) == Rat(x[1] * y[2] - y[1] * x[2], x[2] * y[2])
RMul(x, y) == Rat(x[1] * y[1], x[2] * y[2])
RNeg(x) == <<-x[1], x[2]>>
RAbs(x) == <<Abs(x[1]), x[2]>>
RInv(x) == Rat(x[2], x[1])
RDiv(x, y) == RMul(x, RInv(y))
RLt(x, y) == x[1] * y[2] < y[1] * x[2]
RLe(x, y) == x[1] * y[2] <= y[1] * x[2]
RMax(x, y) == IF RLt(x, y) THEN y ELSE x

\* ------------------------------------------------------------------------
\* Tolerance
\* ------------------------------------------------------------------------
\* TOLERANCE = 1.0e-7, held as its reciprocal
TolInv == 10000000

\* |x| <= TOLERANCE
so_small(x) == Abs(x[1]) <= x[2] \div TolInv

\* |x| <= TOLERANCE^2
so_small2(x) == Abs(x[1]) <= (x[2] \div TolInv) \div TolInv

inv_or_zero(x) == IF so_small(x) THEN RZero ELSE RInv(x)

\* |x - y| <= TOLERANCE * max(1, |x|, |y|)
near(x, y) ==
    LET diff == RAbs(RSub(x, y))
        m == RMax(ROne, RMax(RAbs(x), RAbs(y)))
    IN  diff[1] * m[2] <= (m[1] * diff[2]) \div TolInv

near2(x, y) ==
    LET diff == RAbs(RSub(x, y))
        m == RMax(ROne, RMax(RAbs(x), RAbs(y)))
    IN  diff[1] * m[2] <= ((m[1] * diff[2]) \div TolInv) \div TolInv

\* ------------------------------------------------------------------------
\* Sequences with 0-based indices
\* ------------------------------------------------------------------------
At(s, i) == s[i + 1]
Last(s) == s[Len(s)]
InsertAt(s, i, e) == SubSeq(s, 1, i) \o <<e>> \o SubSeq(s, i + 1, Len(s))
RemoveAt(s, i) == SubSeq(s, 1, i) \o SubSeq(s, i + 2, Len(s))
SetAt(s, i, e) == [s EXCEPT ![i + 1] = e]

\* ------------------------------------------------------------------------
\* Vector<T>: a point is a sequence of scalars
\* ------------------------------------------------------------------------
VZero(dim) == [c \in 1..dim |-> RZero]
VAdd(p, q) == [c \in 1..Len(p) |-> RAdd(p[c], q[c])]
VSub(p, q) == [c \in 1..Len(p) |-> RSub(p[c], q[c])]
VNeg(p) == [c \in 1..Len(p) |-> RNeg(p[c])]
VScale(a, p) == [c \in 1..Len(p) |-> RMul(a, p[c])]
VDivS(p, a) == [c \in 1..Len(p) |-> RDiv(p[c], a)]
VNear(p, q) == \A c \in 1..Len(p) : near(p[c], q[c])
VNear2(p, q) == \A c \in 1..Len(p) : near2(p[c], q[c])

\* ------------------------------------------------------------------------
\* KnotVec
\* ------------------------------------------------------------------------
range_length(K) == IF Len(K) = 0 THEN RZero ELSE RSub(Last(K), At(K, 0))

\* index at which add_knot puts x: after every knot <= x, 0 when x < K[0]
add_knot_idx(K, x) == Cardinality({i \in 1..Len(K) : RLe(K[i], x)})

add_knot(K, x) == InsertAt(K, add_knot_idx(K, x), x)

translate(K, x) == [i \in 1..Len(K) |-> RAdd(K[i], x)]

\* KnotVec::try_normalize fails iff the range is zero
try_normalize_fails(K) == range_length(K) = RZero

\* KnotVec::try_normalize: the knots rescaled to [0, 1]
try_normalize(K) ==
    [i \in 1..Len(K) |-> RDiv(RSub(K[i], At(K, 0)), range_length(K))]

IsSorted(K) == \A i \in 1..(Len(K) - 1) : RLe(K[i], K[i + 1])

\* ------------------------------------------------------------------------
\* BSplineSurface: [knot_vecs |-> <<Ku, Kv>>, control_points |-> rows]
\* ------------------------------------------------------------------------
new_unchecked(knot_vecs, control_points) ==
    [knot_vecs |-> knot_vecs, control_points |-> control_points]

NoSurface == new_unchecked(<<<<>>, <<>>>>, <<>>)

NoErr == <<"None", 0, 0>>
OkRes(S) == [status |-> "Ok", err |-> NoErr, surface |-> S]
ErrRes(e, S) == [status |-> "Err", err |-> e, surface |-> S]
PanicRes(S) == [status |-> "Panic", err |-> NoErr, surface |-> S]

\* try_new without the comparison of the row lengths
try_new_no_irregular(knot_vecs, control_points) ==
    IF Len(control_points) = 0
    THEN ErrRes(<<"EmptyControlPoints", 0, 0>>, NoSurface)
    ELSE IF Len(control_points[1]) = 0
    THEN ErrRes(<<"EmptyControlPoints", 0, 0>>, NoSurface)
    ELSE IF Len(knot_vecs[1]) <= Len(control_points)
    THEN ErrRes(<<"TooShortKnotVector", Len(knot_vecs[1]), Len(control_points)>>,
                NoSurface)
    ELSE IF Len(knot_vecs[2]) <= Len(control_points[1])
    THEN ErrRes(<<"TooShortKnotVector", Len(knot_vecs[2]), Len(control_points[1])>>,
                NoSurface)
    ELSE IF so_small(range_length(knot_vecs[1])) \/ so_small(range_length(knot_vecs[2]))
    THEN ErrRes(<<"ZeroRange", 0, 0>>, NoSurface)
    ELSE OkRes(new_unchecked(knot_vecs, control_points))

\* try_new testing the v knot vector before the u knot vector
try_new_v_first(knot_vecs, control_points) ==
    IF Len(control_points) = 0
    THEN ErrRes(<<"EmptyControlPoints", 0, 0>>, NoSurface)
    ELSE IF Len(control_points[1]) = 0
    THEN ErrRes(<<"EmptyControlPoints", 0, 0>>, NoSurface)
    ELSE IF Len(knot_vecs[2]) <= Len(control_points[1])
    THEN ErrRes(<<"TooShortKnotVector", Len(knot_vecs[2]), Len(control_points[1])>>,
                NoSurface)
    ELSE IF Len(knot_vecs[1]) <= Len(control_points)
    THEN ErrRes(<<"TooShortKnotVector", Len(knot_vecs[1]), Len(control_points)>>,
                NoSurface)
    ELSE IF so_small(range_length(knot_vecs[1])) \/ so_small(range_length(knot_vecs[2]))
    THEN ErrRes(<<"ZeroRange", 0, 0>>, NoSurface)
    ELSE IF \E i \in 1..Len(control_points) :
                Len(control_points[i]) # Len(control_points[1])
    THEN ErrRes(<<"IrregularControlPoints", 0, 0>>, NoSurface)
    ELSE OkRes(new_unchecked(knot_vecs, control_points))

try_new(knot_vecs, control_points) ==
    IF Len(control_points) = 0
    THEN ErrRes(<<"EmptyControlPoints", 0, 0>>, NoSurface)
    ELSE IF Len(control_points[1]) = 0
    THEN ErrRes(<<"EmptyControlPoints", 0, 0>>, NoSurface)
    ELSE IF Len(knot_vecs[1]) <= Len(control_points)
    THEN ErrRes(<<"TooShortKnotVector", Len(knot_vecs[1]), Len(control_points)>>,
                NoSurface)
    ELSE IF Len(knot_vecs[2]) <= Len(control_points[1])
    THEN ErrRes(<<"TooShortKnotVector", Len(knot_vecs[2]), Len(control_points[1])>>,
                NoSurface)
    ELSE IF so_small(range_length(knot_vecs[1])) \/ so_small(range_length(knot_vecs[2]))
    THEN ErrRes(<<"ZeroRange", 0, 0>>, NoSurface)
    ELSE IF \E i \in 1..Len(control_points) :
                Len(control_points[i]) # Len(control_points[1])
    THEN ErrRes(<<"IrregularControlPoints", 0, 0>>, NoSurface)
    ELSE OkRes(new_unchecked(knot_vecs, control_points))

uknot_vec(S) == S.knot_vecs[1]
vknot_vec(S) == S.knot_vecs[2]
Rows(S) == Len(S.control_points)
Cols(S) == Len(S.control_points[1])
Dim(S) == Len(S.control_points[1][1])

udegree(S) == Len(uknot_vec(S)) - Rows(S) - 1
vdegree(S) == Len(vknot_vec(S)) - Cols(S) - 1

control_point(cp, i, j) == At(At(cp, i), j)

\* ------------------------------------------------------------------------
\* Evaluation
\* ------------------------------------------------------------------------
\* the span of t: the knot before the smallest index idx with K[idx] > t,
\* the last non-empty span when there is none (t at the right end)
SpanIdx(K, t) ==
    LET above == {i \in 0..(Len(K) - 1) : RLt(t, At(K, i))}
        inner == {i \in 0..(Len(K) - 1) : RLt(At(K, i), Last(K))}
        Least(X) == CHOOSE i \in X : \A j \in X : i <= j
        Greatest(X) == CHOOSE i \in X : \A j \in X : j <= i
    IN  IF above # {}
        THEN (IF Least(above) = 0 THEN 0 ELSE Least(above) - 1)
        ELSE (IF inner = {} THEN 0 ELSE Greatest(inner))

RECURSIVE Basis(_, _, _, _, _)
Basis(K, span, i, d, t) ==
    IF d = 0
    THEN (IF i = span THEN ROne ELSE RZero)
    ELSE LET left == RMul(RMul(RSub(t, At(K, i)),
                               inv_or_zero(RSub(At(K, i + d), At(K, i)))),
                          Basis(K, span, i, d - 1, t))
             right == RMul(RMul(RSub(At(K, i + d + 1), t),
                                inv_or_zero(RSub(At(K, i + d + 1), At(K, i + 1)))),
                           Basis(K, span, i + 1, d - 1, t))
         IN  RAdd(left, right)

bspline_basis_functions(K, degree, t) ==
    [i \in 1..(Len(K) - degree - 1) |-> Basis(K, SpanIdx(K, t), i - 1, degree, t)]

RECURSIVE VSum(_, _)
VSum(ps, dim) == IF Len(ps) = 0 THEN VZero(dim) ELSE VAdd(ps[1], VSum(Tail(ps), dim))

subs(S, u, v) ==
    LET basis0 == bspline_basis_functions(uknot_vec(S), udegree(S), u)
        basis1 == bspline_basis_functions(vknot_vec(S), vdegree(S), v)
        cp == S.control_points
        RowSum(i) == VSum([j \in 1..Cols(S) |->
                              VScale(RMul(basis0[i], basis1[j]), cp[i][j])], Dim(S))
    IN  VSum([i \in 1..Rows(S) |-> RowSum(i)], Dim(S))

\* ------------------------------------------------------------------------
\* Knot insertion
\* ------------------------------------------------------------------------
\* udelta_control_points without the negation past the last row
udelta_control_points_no_negation(cp, i, j) ==
    IF i = 0 THEN control_point(cp, i, j)
    ELSE IF i = Len(cp) THEN control_point(cp, i - 1, j)
    ELSE VSub(control_point(cp, i, j), control_point(cp, i - 1, j))

udelta_control_points(cp, i, j) ==
    IF i = 0 THEN control_point(cp, i, j)
    ELSE IF i = Len(cp) THEN VNeg(control_point(cp, i - 1, j))
    ELSE VSub(control_point(cp, i, j), control_point(cp, i - 1, j))

vdelta_control_points(cp, i, j) ==
    IF j = 0 THEN control_point(cp, i, j)
    ELSE IF j = Len(cp[1]) THEN VNeg(control_point(cp, i, j - 1))
    ELSE VSub(control_point(cp, i, j), control_point(cp, i, j - 1))

ZeroRow(n1, dim) == [j \in 1..n1 |-> VZero(dim)]

\* the loop of add_uknot taking delta over k knots instead of k + 1
RECURSIVE add_uknot_loop_short_delta(_, _, _, _, _, _)
add_uknot_loop_short_delta(cp, K, k, idx, i0, start) ==
    IF i0 < start THEN cp
    ELSE LET delta == RSub(At(K, i0 + k), At(K, i0))
             a == RMul(inv_or_zero(delta), RSub(At(K, idx), At(K, i0)))
             row == [j \in 1..Len(cp[1]) |->
                        VSub(cp[i0 + 1][j],
                             VScale(RSub(ROne, a), udelta_control_points(cp, i0, j - 1)))]
         IN  add_uknot_loop_short_delta(SetAt(cp, i0, row), K, k, idx, i0 - 1, start)

\* the loop of add_uknot running upwards from start to i0: a row is combined
\* with the row below it after that row has been updated
RECURSIVE add_uknot_loop_ascending(_, _, _, _, _, _)
add_uknot_loop_ascending(cp, K, k, idx, i0, start) ==
    IF i0 < start THEN cp
    ELSE LET below == add_uknot_loop_ascending(cp, K, k, idx, i0 - 1, start)
             delta == RSub(At(K, i0 + k + 1), At(K, i0))
             a == RMul(inv_or_zero(delta), RSub(At(K, idx), At(K, i0)))
         IN  SetAt(below, i0,
                   [j \in 1..Len(cp[1]) |->
                       VSub(below[i0 + 1][j],
                            VScale(RSub(ROne, a), udelta_control_points(below, i0, j - 1)))])

\* the loop of add_uknot, i0 running from end - 1 down to start, in place
RECURSIVE add_uknot_loop(_, _, _, _, _, _)
add_uknot_loop(cp, K, k, idx, i0, start) ==
    IF i0 < start THEN cp
    ELSE LET delta == RSub(At(K, i0 + k + 1), At(K, i0))
             a == RMul(inv_or_zero(delta), RSub(At(K, idx), At(K, i0)))
             row == [j \in 1..Len(cp[1]) |->
                        VSub(cp[i0 + 1][j],
                             VScale(RSub(ROne, a), udelta_control_points(cp, i0, j - 1)))]
         IN  add_uknot_loop(SetAt(cp, i0, row), K, k, idx, i0 - 1, start)

\* add_uknot that adds no row when x lies left of every knot
add_uknot_no_front_row(S, x) ==
    LET k == udegree(S)
        cp == S.control_points
        n0 == Len(cp)
        n1 == Len(cp[1])
        K0 == uknot_vec(S)
    IN  IF RLt(x, At(K0, 0))
        THEN new_unchecked(<<add_knot(K0, x), vknot_vec(S)>>, cp)
        ELSE LET idx == add_knot_idx(K0, x)
                 K == add_knot(K0, x)
                 start == IF idx > k THEN idx - k ELSE 0
                 grown == idx > n0
                 cp1 == IF grown THEN Append(cp, ZeroRow(n1, Dim(S)))
                        ELSE InsertAt(cp, idx - 1, At(cp, idx - 1))
                 end == IF grown THEN n0 + 1 ELSE idx
             IN  new_unchecked(<<K, vknot_vec(S)>>,
                               add_uknot_loop(cp1, K, k, idx, end - 1, start))

add_uknot(S, x) ==
    LET k == udegree(S)
        cp == S.control_points
        n0 == Len(cp)
        n1 == Len(cp[1])
        K0 == uknot_vec(S)
    IN  IF RLt(x, At(K0, 0))
        THEN new_unchecked(<<add_knot(K0, x), vknot_vec(S)>>,
                           InsertAt(cp, 0, ZeroRow(n1, Dim(S))))
        ELSE LET idx == add_knot_idx(K0, x)
                 K == add_knot(K0, x)
                 start == IF idx > k THEN idx - k ELSE 0
                 grown == idx > n0
                 cp1 == IF grown THEN Append(cp, ZeroRow(n1, Dim(S)))
                        ELSE InsertAt(cp, idx - 1, At(cp, idx - 1))
                 end == IF grown THEN n0 + 1 ELSE idx
             IN  new_unchecked(<<K, vknot_vec(S)>>,
                               add_uknot_loop(cp1, K, k, idx, end - 1, start))

\* the loop of add_vknot, j0 running from end - 1 down to start, in place
RECURSIVE add_vknot_loop(_, _, _, _, _, _)
add_vknot_loop(cp, K, k, idx, j0, start) ==
    IF j0 < start THEN cp
    ELSE LET delta == RSub(At(K, j0 + k + 1), At(K, j0))
             a == RMul(inv_or_zero(delta), RSub(At(K, idx), At(K, j0)))
             cp2 == [i \in 1..Len(cp) |->
                        SetAt(cp[i], j0,
                              VSub(cp[i][j0 + 1],
                                   VScale(RSub(ROne, a),
                                          vdelta_control_points(cp, i - 1, j0))))]
         IN  add_vknot_loop(cp2, K, k, idx, j0 - 1, start)

add_vknot(S, x) ==
    LET cp == S.control_points
        K0 == vknot_vec(S)
    IN  IF RLt(x, At(K0, 0))
        THEN new_unchecked(<<uknot_vec(S), add_knot(K0, x)>>,
                           [i \in 1..Len(cp) |-> InsertAt(cp[i], 0, VZero(Dim(S)))])
        ELSE LET k == vdegree(S)
                 n0 == Len(cp)
                 n1 == Len(cp[1])
                 idx == add_knot_idx(K0, x)
                 K == add_knot(K0, x)
                 start == IF idx > k THEN idx - k ELSE 0
                 grown == idx > n1
                 cp1 == IF grown
                        THEN [i \in 1..n0 |-> Append(cp[i], VZero(Dim(S)))]
                        ELSE [i \in 1..n0 |-> InsertAt(cp[i], idx - 1, At(cp[i], idx - 1))]
                 end == IF grown THEN n1 + 1 ELSE idx
             IN  new_unchecked(<<uknot_vec(S), K>>,
                               add_vknot_loop(cp1, K, k, idx, end - 1, start))

\* ------------------------------------------------------------------------
\* Knot removal
\* ------------------------------------------------------------------------
\* ctrl_pts_column_iter(i): the points of control_points[i]
ctrl_pts_column_iter(cp, i) == At(cp, i)

\* ctrl_pts_row_iter(j): the j-th point of every element of control_points
ctrl_pts_row_iter(cp, j) == [i \in 1..Len(cp) |-> At(cp[i], j)]

\* zip of two strips stops at the shorter one
ZipLen(s, t) == IF Len(s) < Len(t) THEN Len(s) ELSE Len(t)

\* the reconstruction loop of try_remove_uknot / try_remove_vknot:
\* strips holds the strips of the net, i runs from idx - k up to idx - 1
\* and the loop is left as soon as the coefficient a is so_small
RECURSIVE reconstruct(_, _, _, _, _, _)
reconstruct(strips, K, k, idx, i, new_points) ==
    IF i >= idx THEN new_points
    ELSE LET delta == RSub(At(K, i + k + 1), At(K, i))
             a == RMul(inv_or_zero(delta), RSub(At(K, idx), At(K, i)))
             prev == Last(new_points)
             vec == [j \in 1..ZipLen(At(strips, i), prev) |->
                        VSub(VDivS(At(strips, i)[j], a),
                             VDivS(VScale(RSub(ROne, a), prev[j]), a))]
         IN  IF so_small(a) THEN new_points
             ELSE reconstruct(strips, K, k, idx, i + 1, Append(new_points, vec))

\* the guard of try_remove_uknot letting idx = n through
cannot_remove_uknot_off_by_one(k, n, idx) == idx < k + 1 \/ idx > n

cannot_remove_uknot(k, n, idx) == idx < k + 1 \/ idx >= n

try_remove_uknot(S, idx) ==
    LET k == udegree(S)
        knot_vec == uknot_vec(S)
        cp == S.control_points
        n == Len(cp)
        Strip(i) == ctrl_pts_column_iter(cp, i)
        Strips == [r \in 1..Len(cp) |-> Strip(r - 1)]
    IN  IF k < 0 THEN PanicRes(S)
        ELSE IF cannot_remove_uknot(k, n, idx)
        THEN ErrRes(<<"CannotRemoveKnot", idx, 0>>, S)
        ELSE IF ~(idx - k - 1 >= 0 /\ idx < n /\ idx + k < Len(knot_vec))
        THEN PanicRes(S)
        ELSE LET new_points == reconstruct(Strips, knot_vec, k, idx, idx - k,
                                           <<Strip(idx - k - 1)>>)
                 last == Last(new_points)
                 written == [r \in 1..n |->
                                IF r - 1 >= idx - k /\ r - 1 - (idx - k) < Len(new_points) - 1
                                THEN new_points[r - 1 - (idx - k) + 2]
                                ELSE cp[r]]
             IN  IF \E j \in 1..ZipLen(Strip(idx), last) : ~VNear(Strip(idx)[j], last[j])
                 THEN ErrRes(<<"CannotRemoveKnot", idx, 0>>, S)
                 ELSE OkRes(new_unchecked(<<RemoveAt(knot_vec, idx), vknot_vec(S)>>,
                                          RemoveAt(written, idx)))

\* remove_uknot dropping the knot and its row although try_remove_uknot failed
remove_uknot_forced(S, idx) ==
    LET r == try_remove_uknot(S, idx)
    IN  IF r.status = "Err" /\ idx < Rows(S) /\ Rows(S) > 1
        THEN new_unchecked(<<RemoveAt(uknot_vec(S), idx), vknot_vec(S)>>,
                           RemoveAt(S.control_points, idx))
        ELSE r.surface

remove_uknot(S, idx) == try_remove_uknot(S, idx).surface

cannot_remove_vknot(k, n, idx) == idx < k + 1 \/ idx >= n

try_remove_vknot(S, idx) ==
    LET k == vdegree(S)
        knot_vec == vknot_vec(S)
        cp == S.control_points
        n == Len(cp[1])
        Strip(j) == ctrl_pts_row_iter(cp, j)
        Strips == [c \in 1..Len(cp[1]) |-> Strip(c - 1)]
    IN  IF k < 0 THEN PanicRes(S)
        ELSE IF cannot_remove_vknot(k, n, idx)
        THEN ErrRes(<<"CannotRemoveKnot", idx, 0>>, S)
        ELSE IF ~(idx - k - 1 >= 0 /\ idx + k < Len(knot_vec)
                  /\ \A r \in 1..Len(cp) : idx < Len(cp[r]))
        THEN PanicRes(S)
        ELSE LET new_points == reconstruct(Strips, knot_vec, k, idx, idx - k,
                                           <<Strip(idx - k - 1)>>)
                 last == Last(new_points)
                 written == [r \in 1..Len(cp) |-> [c \in 1..Len(cp[r]) |->
                                IF c - 1 >= idx - k /\ c - 1 - (idx - k) < Len(new_points) - 1
                                   /\ r <= Len(new_points[c - 1 - (idx - k) + 2])
                                THEN new_points[c - 1 - (idx - k) + 2][r]
                                ELSE cp[r][c]]]
             IN  IF \E i \in 1..ZipLen(Strip(idx), last) : ~VNear(Strip(idx)[i], last[i])
                 THEN ErrRes(<<"CannotRemoveKnot", idx, 0>>, S)
                 ELSE OkRes(new_unchecked(<<uknot_vec(S), RemoveAt(knot_vec, idx)>>,
                                          [r \in 1..Len(cp) |-> RemoveAt(written[r], idx)]))

remove_vknot(S, idx) == try_remove_vknot(S, idx).surface

\* ------------------------------------------------------------------------
\* Derivation, swap, optimize, translation, scalar multiplication
\* ------------------------------------------------------------------------
\* uderivation taking the differencing branch for degree 0 too
uderivation_degree_zero(S) ==
    LET cp == S.control_points
        n0 == Len(cp)
        n1 == Len(cp[1])
        k == udegree(S)
        K == uknot_vec(S)
        new_points ==
            [r \in 1..(n0 + 1) |->
                LET i == r - 1
                    delta == RSub(At(K, i + k), At(K, i))
                    coef == RMul(R(k), inv_or_zero(delta))
                IN  [c \in 1..n1 |-> VScale(coef, udelta_control_points(cp, i, c - 1))]]
    IN  new_unchecked(S.knot_vecs, new_points)

uderivation(S) ==
    LET cp == S.control_points
        n0 == Len(cp)
        n1 == Len(cp[1])
        k == udegree(S)
        K == uknot_vec(S)
        new_points ==
            IF k > 0
            THEN [r \in 1..(n0 + 1) |->
                    LET i == r - 1
                        delta == RSub(At(K, i + k), At(K, i))
                        coef == RMul(R(k), inv_or_zero(delta))
                    IN  [c \in 1..n1 |-> VScale(coef, udelta_control_points(cp, i, c - 1))]]
            ELSE [r \in 1..n0 |-> ZeroRow(n1, Dim(S))]
    IN  new_unchecked(S.knot_vecs, new_points)

vderivation(S) ==
    LET cp == S.control_points
        n0 == Len(cp)
        n1 == Len(cp[1])
        k == vdegree(S)
        K == vknot_vec(S)
        new_points ==
            IF k > 0
            THEN [r \in 1..n0 |-> [c \in 1..(n1 + 1) |->
                    LET j == c - 1
                        delta == RSub(At(K, j + k), At(K, j))
                        coef == RMul(R(k), inv_or_zero(delta))
                    IN  VScale(coef, vdelta_control_points(cp, r - 1, j))]]
            ELSE [r \in 1..n0 |-> ZeroRow(n1, Dim(S))]
    IN  new_unchecked(S.knot_vecs, new_points)

\* swap_axes that leaves the knot vectors where they are
swap_axes_keep_knots(S) ==
    LET cp == S.control_points
        n0 == Len(cp)
        n1 == Len(cp[1])
    IN  new_unchecked(S.knot_vecs, [c \in 1..n1 |-> [r \in 1..n0 |-> cp[r][c]]])

\* swap_axes allocating n0 new rows instead of n1, so that zip cuts the rest off
swap_axes_wrong_capacity(S) ==
    LET cp == S.control_points
        n0 == Len(cp)
        n1 == Len(cp[1])
        m == IF n0 < n1 THEN n0 ELSE n1
    IN  new_unchecked(<<vknot_vec(S), uknot_vec(S)>>,
                      [c \in 1..n0 |-> IF c <= m THEN [r \in 1..n0 |-> cp[r][c]] ELSE <<>>])

swap_axes(S) ==
    LET cp == S.control_points
        n0 == Len(cp)
        n1 == Len(cp[1])
    IN  new_unchecked(<<vknot_vec(S), uknot_vec(S)>>,
                      [c \in 1..n1 |-> [r \in 1..n0 |-> cp[r][c]]])

\* the pass over the u knots overwriting flag by the last attempt's outcome
\* instead of and-ing it: after a removal the pass goes on and may end with
\* flag set
RECURSIVE optimize_upass_overwrites_flag(_, _, _)
optimize_upass_overwrites_flag(S, n0, i) ==
    IF i > n0 THEN [flag |-> TRUE, surface |-> S, calls |-> <<>>]
    ELSE LET r == try_remove_uknot(S, n0 - i)
         IN  IF i = n0
             THEN [flag |-> r.status = "Err", surface |-> r.surface,
                   calls |-> << <<"u", n0 - i>> >>]
             ELSE [optimize_upass_overwrites_flag(r.surface, n0, i + 1)
                       EXCEPT !.calls = << <<"u", n0 - i>> >> \o @]

\* one pass over the u knots from the back; `flag && ...` stops calling
\* try_remove_uknot once an attempt has succeeded.  calls lists the
\* attempts made, in their order.
RECURSIVE optimize_upass(_, _, _)
optimize_upass(S, n0, i) ==
    IF i > n0 THEN [flag |-> TRUE, surface |-> S, calls |-> <<>>]
    ELSE LET r == try_remove_uknot(S, n0 - i)
         IN  IF r.status = "Err"
             THEN [optimize_upass(S, n0, i + 1) EXCEPT !.calls = << <<"u", n0 - i>> >> \o @]
             ELSE [flag |-> FALSE, surface |-> r.surface, calls |-> << <<"u", n0 - i>> >>]

RECURSIVE optimize_vpass(_, _, _)
optimize_vpass(S, n1, j) ==
    IF j > n1 THEN [flag |-> TRUE, surface |-> S, calls |-> <<>>]
    ELSE LET r == try_remove_vknot(S, n1 - j)
         IN  IF r.status = "Err"
             THEN [optimize_vpass(S, n1, j + 1) EXCEPT !.calls = << <<"v", n1 - j>> >> \o @]
             ELSE [flag |-> FALSE, surface |-> r.surface, calls |-> << <<"v", n1 - j>> >>]

\* the pass that looks at the u knots only
optimize_pass_u_only(S) ==
    optimize_upass(S, Len(uknot_vec(S)), 1)

\* one pass of the loop of optimize: the u knots, then the v knots
optimize_pass(S) ==
    LET n0 == Len(uknot_vec(S))
        n1 == Len(vknot_vec(S))
        upass == optimize_upass(S, n0, 1)
    IN  IF upass.flag
        THEN [optimize_vpass(upass.surface, n1, 1) EXCEPT !.calls = upass.calls \o @]
        ELSE upass

RECURSIVE optimize(_)
optimize(S) ==
    LET pass == optimize_pass(S)
    IN  IF pass.flag THEN pass.surface ELSE optimize(pass.surface)

\* knot_normalize rescaling the u knot vector only
knot_normalize_u_only(S) ==
    IF try_normalize_fails(uknot_vec(S)) THEN PanicRes(S)
    ELSE OkRes(new_unchecked(<<try_normalize(uknot_vec(S)), vknot_vec(S)>>,
                             S.control_points))

\* each try_normalize is unwrapped: a failure of the second leaves the first done
knot_normalize(S) ==
    IF try_normalize_fails(uknot_vec(S)) THEN PanicRes(S)
    ELSE IF try_normalize_fails(vknot_vec(S))
    THEN PanicRes(new_unchecked(<<try_normalize(uknot_vec(S)), vknot_vec(S)>>,
                                S.control_points))
    ELSE OkRes(new_unchecked(<<try_normalize(uknot_vec(S)), try_normalize(vknot_vec(S))>>,
                             S.control_points))

uknot_translate(S, x) ==
    new_unchecked(<<translate(uknot_vec(S), x), vknot_vec(S)>>, S.control_points)

vknot_translate(S, x) ==
    new_unchecked(<<uknot_vec(S), translate(vknot_vec(S), x)>>, S.control_points)

mul_assign(S, scalar) ==
    new_unchecked(S.knot_vecs,
                  [r \in 1..Len(S.control_points) |->
                      [c \in 1..Len(S.control_points[r]) |->
                          VScale(scalar, S.control_points[r][c])]])

\* ------------------------------------------------------------------------
\* Algebraic operators
\* ------------------------------------------------------------------------
RECURSIVE Dot(_, _, _)
Dot(p, q, n) == IF n = 0 THEN RZero ELSE RAdd(Dot(p, q, n - 1), RMul(p[n], q[n]))

\* Matrix: a sequence of rows; vec * mat and mat * vec
vec_mat(vec, mat) ==
    [c \in 1..Len(mat[1]) |-> Dot(vec, [r \in 1..Len(mat) |-> mat[r][c]], Len(vec))]

mat_vec(mat, vec) == [r \in 1..Len(mat) |-> Dot(mat[r], vec, Len(vec))]

\* the matrix applied on the right of each control point also in mat * surface
matrix_mul_as_mul_assign(mat, bspline) ==
    new_unchecked(bspline.knot_vecs,
                  [r \in 1..Len(bspline.control_points) |->
                      [c \in 1..Len(bspline.control_points[r]) |->
                          vec_mat(bspline.control_points[r][c], mat)]])

\* MulAssign<&Matrix>: *vec *= mat for every control point
mul_assign_matrix(S, mat) ==
    new_unchecked(S.knot_vecs,
                  [r \in 1..Len(S.control_points) |->
                      [c \in 1..Len(S.control_points[r]) |->
                          vec_mat(S.control_points[r][c], mat)]])

\* Mul<&BSplineSurface> for &Matrix: *vec = self * &*vec for every control point
matrix_mul(mat, bspline) ==
    new_unchecked(bspline.knot_vecs,
                  [r \in 1..Len(bspline.control_points) |->
                      [c \in 1..Len(bspline.control_points[r]) |->
                          mat_vec(mat, bspline.control_points[r][c])]])

\* Mul<&BSplineSurface> for f64: *vec = self * &*vec for every control point
scalar_mul(scalar, bspline) ==
    new_unchecked(bspline.knot_vecs,
                  [r \in 1..Len(bspline.control_points) |->
                      [c \in 1..Len(bspline.control_points[r]) |->
                          VScale(scalar, bspline.control_points[r][c])]])

\* ------------------------------------------------------------------------
\* Comparison as surfaces
\* ------------------------------------------------------------------------
Max(a, b) == IF a > b THEN a ELSE b

\* Vector::rational_projection: the leading components divided by the last
rational_projection(p) == [c \in 1..(Len(p) - 1) |-> RDiv(p[c], Last(p))]

\* the closure handed to sub_near_as_surface, named by the comparison it makes
Ord(ord, x, y) ==
    IF ord = "near" THEN VNear(x, y)
    ELSE IF ord = "near2" THEN VNear2(x, y)
    ELSE IF ord = "projected_near"
    THEN VNear(rational_projection(x), rational_projection(y))
    ELSE VNear2(rational_projection(x), rational_projection(y))

\* the number of samples of a span taken from the degrees of the surface alone
division0_own_degrees(S, other, div_coef) == Max(udegree(S), vdegree(S)) * div_coef

\* the number of samples of every u span and of every v span
division0(S, other, div_coef) == Max(udegree(S), udegree(other)) * div_coef

division1(S, other, div_coef) == Max(vdegree(S), vdegree(other)) * div_coef

\* the parameters of the samples of u span i0 and of v span i1
usamples(S, other, div_coef, i0) ==
    LET K0 == uknot_vec(S)
        delta0 == RSub(At(K0, i0), At(K0, i0 - 1))
    IN  { RAdd(At(K0, i0 - 1),
               RDiv(RMul(delta0, R(j0)), R(division0(S, other, div_coef)))) :
          j0 \in 0..(division0(S, other, div_coef) - 1) }

vsamples(S, other, div_coef, i1) ==
    LET K1 == vknot_vec(S)
        delta1 == RSub(At(K1, i1), At(K1, i1 - 1))
    IN  { RAdd(At(K1, i1 - 1),
               RDiv(RMul(delta1, R(j1)), R(division1(S, other, div_coef)))) :
          j1 \in 0..(division1(S, other, div_coef) - 1) }

\* the two tests of the knot vectors that sub_near_as_surface makes first
same_knot_ranges(S, other) ==
    /\ near(At(uknot_vec(S), 0), At(uknot_vec(other), 0))
    /\ near(range_length(uknot_vec(S)), range_length(uknot_vec(other)))
    /\ near(At(vknot_vec(S), 0), At(vknot_vec(other), 0))
    /\ near(range_length(vknot_vec(S)), range_length(vknot_vec(other)))

\* the comparison sampling the spans of other's knot vectors
sub_near_as_surface_spans_of_other(S, other, div_coef, ord) ==
    LET K0 == uknot_vec(other)
        K1 == vknot_vec(other)
        delta0(i0) == RSub(At(K0, i0), At(K0, i0 - 1))
        delta1(i1) == RSub(At(K1, i1), At(K1, i1 - 1))
    IN  IF \/ ~near(At(K0, 0), At(uknot_vec(S), 0))
           \/ ~near(range_length(K0), range_length(uknot_vec(S)))
        THEN FALSE
        ELSE IF \/ ~near(At(K1, 0), At(vknot_vec(S), 0))
                \/ ~near(range_length(K1), range_length(vknot_vec(S)))
        THEN FALSE
        ELSE \A i0 \in 1..(Len(K0) - 1) :
                 so_small(delta0(i0)) \/
                 \A u \in usamples(other, S, div_coef, i0) :
                     \A i1 \in 1..(Len(K1) - 1) :
                         so_small(delta1(i1)) \/
                         \A v \in vsamples(other, S, div_coef, i1) :
                             Ord(ord, subs(S, u, v), subs(other, u, v))

sub_near_as_surface(S, other, div_coef, ord) ==
    LET K0 == uknot_vec(S)
        K1 == vknot_vec(S)
        delta0(i0) == RSub(At(K0, i0), At(K0, i0 - 1))
        delta1(i1) == RSub(At(K1, i1), At(K1, i1 - 1))
    IN  IF \/ ~near(At(K0, 0), At(uknot_vec(other), 0))
           \/ ~near(range_length(K0), range_length(uknot_vec(other)))
        THEN FALSE
        ELSE IF \/ ~near(At(K1, 0), At(vknot_vec(other), 0))
                \/ ~near(range_length(K1), range_length(vknot_vec(other)))
        THEN FALSE
        ELSE \A i0 \in 1..(Len(K0) - 1) :
                 so_small(delta0(i0)) \/
                 \A u \in usamples(S, other, div_coef, i0) :
                     \A i1 \in 1..(Len(K1) - 1) :
                         so_small(delta1(i1)) \/
                         \A v \in vsamples(S, other, div_coef, i1) :
                             Ord(ord, subs(S, u, v), subs(other, u, v))

near_as_surface(S, other) == sub_near_as_surface(S, other, 1, "near")

near2_as_surface(S, other) == sub_near_as_surface(S, other, 1, "near2")

near_as_projected_surface(S, other) ==
    sub_near_as_surface(S, other, 2, "projected_near")

near2_as_projected_surface(S, other) ==
    sub_near_as_surface(S, other, 2, "projected_near2")

NearVariants ==
    { "near_as_surface", "near2_as_surface",
      "near_as_projected_surface", "near2_as_projected_surface" }

\* the div_coef of each of the four comparisons
DivCoef(op) == IF op \in {"near_as_surface", "near2_as_surface"} THEN 1 ELSE 2

near_call(op, S, other) ==
    IF op = "near_as_surface" THEN near_as_surface(S, other)
    ELSE IF op = "near2_as_surface" THEN near2_as_surface(S, other)
    ELSE IF op = "near_as_projected_surface" THEN near_as_projected_surface(S, other)
    ELSE near2_as_projected_surface(S, other)

\* ------------------------------------------------------------------------
\* B-spline curves
\* ------------------------------------------------------------------------
new_curve(knot_vec, control_points) ==
    [knot_vec |-> knot_vec, control_points |-> control_points]

curve_degree(c) == Len(c.knot_vec) - Len(c.control_points) - 1

\* a curve is edited as the u axis of a surface of one column
curve_as_surface(c) ==
    new_unchecked(<<c.knot_vec, <<RZero, ROne>>>>,
                  [i \in 1..Len(c.control_points) |-> <<c.control_points[i]>>])

surface_as_curve(S) ==
    new_curve(uknot_vec(S), [i \in 1..Rows(S) |-> S.control_points[i][1]])

curve_add_knot(c, x) == surface_as_curve(add_uknot(curve_as_surface(c), x))

\* BSplineCurve::try_remove_knot
curve_try_remove_knot(c, idx) == try_remove_uknot(curve_as_surface(c), idx)

\* one pass of BSplineCurve::optimize: try_remove_knot at every index from idx
\* down to 0; <<whether every attempt failed, the curve after the pass>>
RECURSIVE curve_optimize_pass(_, _)
curve_optimize_pass(c, idx) ==
    IF idx < 0 THEN <<TRUE, c>>
    ELSE CHOOSE pass \in
             { IF r.status = "Err" THEN curve_optimize_pass(c, idx - 1)
               ELSE <<FALSE, curve_optimize_pass(surface_as_curve(r.surface), idx - 1)[2]>> :
               r \in {curve_try_remove_knot(c, idx)} } : TRUE

\* BSplineCurve::optimize: passes are made until one removes nothing
RECURSIVE curve_optimize(_)
curve_optimize(c) ==
    CHOOSE d \in { IF pass[1] THEN pass[2] ELSE curve_optimize(pass[2]) :
                   pass \in {curve_optimize_pass(c, Len(c.knot_vec) - 1)} } : TRUE

curve_knot_normalize(c) == new_curve(try_normalize(c.knot_vec), c.control_points)

\* a curve of a single span, clamped at both ends
is_bezier(c) ==
    LET n == Len(c.control_points)
    IN  /\ Len(c.knot_vec) = 2 * n
        /\ \A i \in 1..n : c.knot_vec[i] = c.knot_vec[1]
        /\ \A i \in (n + 1)..(2 * n) : c.knot_vec[i] = c.knot_vec[2 * n]

\* degree elevation of a curve of a single span
elevate_degree(c) ==
    LET k == curve_degree(c)
        P == c.control_points
        n == Len(P)
        Q(i) == IF i = 0 THEN P[1]
                ELSE IF i = n THEN P[n]
                ELSE VAdd(VScale(Rat(i, k + 1), P[i]),
                          VScale(Rat(k + 1 - i, k + 1), P[i + 1]))
    IN  new_curve(<<At(c.knot_vec, 0)>> \o c.knot_vec \o <<Last(c.knot_vec)>>,
                  [r \in 1..(n + 1) |-> Q(r - 1)])

RECURSIVE syncro_degree(_, _)
syncro_degree(c0, c1) ==
    IF curve_degree(c0) < curve_degree(c1) THEN syncro_degree(elevate_degree(c0), c1)
    ELSE IF curve_degree(c1) < curve_degree(c0) THEN syncro_degree(c0, elevate_degree(c1))
    ELSE <<c0, c1>>

Count(K, x) == Cardinality({i \in 1..Len(K) : K[i] = x})

\* the knots of K that c has fewer times than K are inserted into c
RECURSIVE add_missing_knots(_, _, _)
add_missing_knots(c, K, i) ==
    IF i > Len(K) THEN c
    ELSE LET missing == Count(c.knot_vec, K[i]) < Count(K, K[i])
         IN  add_missing_knots(IF missing THEN curve_add_knot(c, K[i]) ELSE c, K,
                               IF missing THEN i ELSE i + 1)

\* both curves are normalised once, then each receives the knots of the other
syncro_knot(c0, c1) ==
    CHOOSE pair \in { [k \in {1, 2} |-> add_missing_knots(n[k], n[3 - k].knot_vec, 1)] :
                      n \in {[k \in {1, 2} |->
                                 curve_knot_normalize(IF k = 1 THEN c0 ELSE c1)]} } : TRUE

\* syncro_degree, optimize of both curves, syncro_knot
corefine(c0, c1) ==
    CHOOSE pair \in { syncro_knot(o[1], o[2]) :
                      o \in {[k \in {1, 2} |-> curve_optimize(syncro_degree(c0, c1)[k])]} } :
        TRUE

\* homotopy taking both columns from the first curve
homotopy_one_curve(bspcurve0, bspcurve1) ==
    CHOOSE S \in { new_unchecked(<<d[1].knot_vec, <<R(0), R(0), R(1), R(1)>>>>,
                       [i \in 1..Len(d[1].control_points) |->
                           <<d[1].control_points[i], d[1].control_points[i]>>]) :
                   d \in {corefine(bspcurve0, bspcurve1)} } : TRUE

\* the two curves are co-refined once, then the net is assembled
homotopy(bspcurve0, bspcurve1) ==
    CHOOSE S \in { new_unchecked(<<d[1].knot_vec, <<R(0), R(0), R(1), R(1)>>>>,
                       [i \in 1..Len(d[1].control_points) |->
                           <<d[1].control_points[i], d[2].control_points[i]>>]) :
                   d \in {corefine(bspcurve0, bspcurve1)} } : TRUE

\* BSplineCurve::invert: the control points reversed, the knot vector
\* reflected about the middle of its range
curve_invert(c) ==
    LET K == c.knot_vec
        P == c.control_points
    IN  new_curve([i \in 1..Len(K) |-> RSub(RAdd(At(K, 0), Last(K)), K[Len(K) + 1 - i])],
                  [i \in 1..Len(P) |-> P[Len(P) + 1 - i]])

\* the result of BSplineSurface::new, which unwraps try_new
new(knot_vecs, control_points) ==
    LET r == try_new(knot_vecs, control_points)
    IN  IF r.status = "Ok" THEN r ELSE PanicRes(NoSurface)

\* the net of by_boundary blended with u = i / (n - 1) and v = j / (m - 1)
by_boundary_net_unit_parameter(a, b) ==
    LET c0 == a[1].control_points
        c2 == a[2].control_points
        c1 == b[1].control_points
        c3 == b[2].control_points
        n == Len(c0)
        m == Len(c3)
        u(i) == Rat(i, n - 1)
        v(j) == Rat(j, m - 1)
        pt0(i) == VAdd(VScale(u(i), At(c0, i)), VScale(RSub(ROne, u(i)), At(c2, i)))
        pt1(j) == VAdd(VScale(v(j), At(c3, j)), VScale(RSub(ROne, v(j)), At(c1, j)))
        new_row(i) == <<At(c0, i)>>
                      \o [j \in 1..(m - 2) |-> VScale(Rat(1, 2), VAdd(pt0(i), pt1(j)))]
                      \o <<At(c2, i)>>
    IN  new(<<a[1].knot_vec, b[2].knot_vec>>,
            <<c3>> \o [i \in 1..(n - 2) |-> new_row(i)] \o <<c1>>)

\* the net of by_boundary from a = the co-refined (curve0, curve2) and
\* b = the co-refined (curve1, curve3)
by_boundary_net(a, b) ==
    LET c0 == a[1].control_points
        c2 == a[2].control_points
        c1 == b[1].control_points
        c3 == b[2].control_points
        n == Len(c0)
        m == Len(c3)
        u(i) == Rat(i, n)
        v(j) == Rat(j, m)
        pt0(i) == VAdd(VScale(u(i), At(c0, i)), VScale(RSub(ROne, u(i)), At(c2, i)))
        pt1(j) == VAdd(VScale(v(j), At(c3, j)), VScale(RSub(ROne, v(j)), At(c1, j)))
        new_row(i) == <<At(c0, i)>>
                      \o [j \in 1..(m - 2) |-> VScale(Rat(1, 2), VAdd(pt0(i), pt1(j)))]
                      \o <<At(c2, i)>>
    IN  new(<<a[1].knot_vec, b[2].knot_vec>>,
            <<c3>> \o [i \in 1..(n - 2) |-> new_row(i)] \o <<c1>>)

\* curve2 and curve3 are inverted, the pairs co-refined once, the net assembled
by_boundary(curve0, curve1, curve2, curve3) ==
    CHOOSE r \in { by_boundary_net(co[1], co[2]) :
                   co \in {[k \in {1, 2} |->
                              corefine(IF k = 1 THEN curve0 ELSE curve1,
                                       curve_invert(IF k = 1 THEN curve2 ELSE curve3))]} } :
        TRUE

\* BSplineCurve::knot_translate
curve_knot_translate(c, x) == new_curve(translate(c.knot_vec, x), c.control_points)

\* BSplineCurve::concat for curves of one degree: other is moved to begin at
\* the last knot of c, and the two end points become one control point
concat(c, other) ==
    LET k == curve_degree(c)
        K == c.knot_vec
        moved == translate(other.knot_vec, RSub(Last(K), At(other.knot_vec, 0)))
    IN  new_curve(SubSeq(K, 1, Len(K) - k - 1) \o Tail(moved),
                  c.control_points \o Tail(other.control_points))

splitted_boundary(S) ==
    LET control_points0 == [i \in 1..Rows(S) |-> S.control_points[i][1]]
        control_points1 == Last(S.control_points)
        control_points2 == [i \in 1..Rows(S) |-> Last(S.control_points[i])]
        control_points3 == S.control_points[1]
    IN  << new_curve(uknot_vec(S), control_points0),
           new_curve(vknot_vec(S), control_points1),
           new_curve(uknot_vec(S), control_points2),
           new_curve(vknot_vec(S), control_points3) >>

\* the four curves of boundary as they are handed to concat
boundary_edges(S) ==
    LET range0 == range_length(uknot_vec(S))
        range1 == range_length(vknot_vec(S))
        b == splitted_boundary(S)
    IN  << b[1],
           curve_knot_translate(b[2], range0),
           curve_knot_translate(curve_invert(b[3]), RAdd(range0, range1)),
           curve_knot_translate(curve_invert(b[4]), RAdd(RMul(range0, R(2)), range1)) >>

boundary(S) ==
    LET e == boundary_edges(S)
    IN  concat(concat(concat(e[1], e[2]), e[3]), e[4])

\* ------------------------------------------------------------------------
\* Derive macros (truck-geoderive)
\* ------------------------------------------------------------------------
\* A token stream is held as the structure it spells: a generated method is a
\* record of its signature and its match arms, an arm is the pattern it
\* matches, the name it binds the payload to, the path it calls, the
\* arguments in the order they are written, and the constructor wrapped
\* around the call (NoIdent when the call is the whole arm).  Types of the
\* arguments play no part in the expansion and are dropped.
NoIdent == ""

\* the methods! macro: one Method per signature, all of the derived trait
Method(trait_name, name, fields, return_type) ==
    [trait_name |-> trait_name, name |-> name, fields |-> fields,
     return_type |-> return_type]

\* the pattern `Self::V(got)` or `Self::V { ident }` binds the payload
binding(variant) ==
    IF variant.fields[1] # NoIdent THEN variant.fields[1] ELSE "got"

\* a variant with no field panics the macro, one with several is unimplemented
arm_panics(variant) == Len(variant.fields) # 1

enumerate_impl_return_something(variants, method, method_variants) ==
    [i \in 1..Len(variants) |->
        [pattern |-> variants[i].ident,
         binding |-> binding(variants[i]),
         callee  |-> method,
         args    |-> <<binding(variants[i])>> \o method_variants,
         wrap    |-> NoIdent]]

enumerate_impl_return_self_first_variant(variants, method, method_variants) ==
    [i \in 1..Len(variants) |->
        [pattern |-> variants[i].ident,
         binding |-> binding(variants[i]),
         callee  |-> method,
         args    |-> <<binding(variants[i])>> \o method_variants,
         wrap    |-> variants[1].ident]]

enumerate_impl_return_self(variants, method, method_variants) ==
    [i \in 1..Len(variants) |->
        [pattern |-> variants[i].ident,
         binding |-> binding(variants[i]),
         callee  |-> method,
         args    |-> <<binding(variants[i])>> \o method_variants,
         wrap    |-> variants[i].ident]]

\* Method::to_token_stream: the path called is #trait_name::#method_name and
\* the arguments after the payload are the parameter names in their order
to_token_stream(m, variants) ==
    [name |-> m.name, fields |-> m.fields, return_type |-> m.return_type,
     arms |-> IF m.return_type = "Self"
              THEN enumerate_impl_return_self(
                       variants, [trait |-> m.trait_name, name |-> m.name], m.fields)
              ELSE enumerate_impl_return_something(
                       variants, [trait |-> m.trait_name, name |-> m.name], m.fields)]

ParametricSurfaceMethods ==
    << Method("ParametricSurface", "subs", <<"s", "t">>, "Self::Point"),
       Method("ParametricSurface", "uder", <<"s", "t">>, "Self::Vector"),
       Method("ParametricSurface", "vder", <<"s", "t">>, "Self::Vector"),
       Method("ParametricSurface", "uuder", <<"s", "t">>, "Self::Vector"),
       Method("ParametricSurface", "uvder", <<"s", "t">>, "Self::Vector"),
       Method("ParametricSurface", "vvder", <<"s", "t">>, "Self::Vector") >>

DeriveMacros ==
    { "BoundedCurve", "BoundedSurface", "Cut", "Invertible",
      "ParameterDivision1D", "ParameterDivision2D", "ParametricCurve",
      "ParametricSurface", "ParametricSurface3D",
      "SearchNearestParameterD1", "SearchNearestParameterD2",
      "SearchParameterD1", "SearchParameterD2" }

\* the methods! invocation in the Data::Enum arm of each derive function
methods(macro) ==
    CASE macro = "BoundedCurve" ->
           << Method("BoundedCurve", "parameter_range", <<>>, "(f64, f64)") >>
      [] macro = "BoundedSurface" ->
           << Method("BoundedSurface", "parameter_range", <<>>,
                     "((f64, f64), (f64, f64))") >>
      [] macro = "Cut" ->
           << Method("Cut", "cut", <<"t">>, "Self") >>
      [] macro = "Invertible" ->
           << Method("Invertible", "invert", <<>>, "()"),
              Method("Invertible", "inverse", <<>>, "Self") >>
      [] macro = "ParameterDivision1D" ->
           << Method("ParameterDivision1D", "parameter_division",
                     <<"range", "tol">>, "(Vec<f64>, Vec<Self::Point>)") >>
      [] macro = "ParameterDivision2D" ->
           << Method("ParameterDivision2D", "parameter_division",
                     <<"range", "tol">>, "(Vec<f64>, Vec<f64>)") >>
      [] macro = "ParametricCurve" ->
           << Method("ParametricCurve", "subs", <<"t">>, "Self::Point"),
              Method("ParametricCurve", "der", <<"t">>, "Self::Vector"),
              Method("ParametricCurve", "der2", <<"t">>, "Self::Vector") >>
      [] macro = "ParametricSurface" -> ParametricSurfaceMethods
      [] macro = "ParametricSurface3D" ->
           ParametricSurfaceMethods
           \o << Method("ParametricSurface3D", "normal", <<"u", "v">>, "Vector3") >>
      [] macro = "SearchNearestParameterD1" ->
           << Method("SearchNearestParameter::<D1>", "search_nearest_parameter",
                     <<"pt", "hint", "trials">>, "Option<f64>") >>
      [] macro = "SearchNearestParameterD2" ->
           << Method("SearchNearestParameter::<D2>", "search_nearest_parameter",
                     <<"pt", "hint", "trials">>, "Option<(f64, f64)>") >>
      [] macro = "SearchParameterD1" ->
           << Method("SearchParameter::<D1>", "search_parameter",
                     <<"pt", "hint", "trials">>, "Option<f64>") >>
      [] macro = "SearchParameterD2" ->
           << Method("SearchParameter::<D2>", "search_parameter",
                     <<"pt", "hint", "trials">>, "Option<(f64, f64)>") >>

\* one method of a Data::Struct arm: `self.0.callee(vals)`, inside `Self(..)`
\* when wrapped.  The call is written in method syntax, so the trait is the
\* one method lookup finds for that name on the inner type.
Delegate(name, fields, return_type, callee, vals, wrapped) ==
    [name |-> name, fields |-> fields, return_type |-> return_type,
     arms |-> << [pattern |-> "Self",
                  binding |-> "self.0",
                  callee  |-> [trait |-> NoIdent, name |-> callee],
                  args    |-> <<"self.0">> \o vals,
                  wrap    |-> IF wrapped THEN "Self" ELSE NoIdent] >>]

ParametricSurfaceDelegates ==
    << Delegate("subs", <<"s", "t">>, "Self::Point", "subs", <<"s", "t">>, FALSE),
       Delegate("uder", <<"s", "t">>, "Self::Vector", "uder", <<"s", "t">>, FALSE),
       Delegate("vder", <<"s", "t">>, "Self::Vector", "vder", <<"s", "t">>, FALSE),
       Delegate("uuder", <<"s", "t">>, "Self::Vector", "uuder", <<"s", "t">>, FALSE),
       Delegate("uvder", <<"s", "t">>, "Self::Vector", "uvder", <<"s", "t">>, FALSE),
       Delegate("vvder", <<"s", "t">>, "Self::Vector", "vvder", <<"s", "t">>, FALSE) >>

\* the quote! of the Data::Struct arm of each derive function
struct_impl(macro) ==
    CASE macro = "BoundedCurve" ->
           << Delegate("parameter_range", <<>>, "(f64, f64)",
                       "parameter_range", <<>>, FALSE) >>
      [] macro = "BoundedSurface" ->
           << Delegate("parameter_range", <<>>, "((f64, f64), (f64, f64))",
                       "parameter_range", <<>>, FALSE) >>
      [] macro = "Cut" ->
           << Delegate("cut", <<"t">>, "Self", "cut", <<"t">>, TRUE) >>
      [] macro = "Invertible" ->
           << Delegate("invert", <<>>, "()", "invert", <<>>, FALSE),
              Delegate("inverse", <<>>, "Self", "inverse", <<>>, TRUE) >>
      [] macro = "ParameterDivision1D" ->
           << Delegate("parameter_division", <<"range", "tol">>,
                       "(Vec<f64>, Vec<Self::Point>)",
                       "parameter_division", <<"range", "tol">>, FALSE) >>
      [] macro = "ParameterDivision2D" ->
           << Delegate("parameter_division", <<"range", "tol">>,
                       "(Vec<f64>, Vec<f64>)",
                       "parameter_division", <<"range", "tol">>, FALSE) >>
      [] macro = "ParametricCurve" ->
           << Delegate("subs", <<"t">>, "Self::Point", "subs", <<"t">>, FALSE),
              Delegate("der", <<"t">>, "Self::Vector", "der", <<"t">>, FALSE),
              Delegate("der2", <<"t">>, "Self::Vector", "der2", <<"t">>, FALSE) >>
      [] macro = "ParametricSurface" -> ParametricSurfaceDelegates
      [] macro = "ParametricSurface3D" ->
           ParametricSurfaceDelegates
           \o << Delegate("normal", <<"u", "v">>, "Vector3",
                          "normal", <<"u", "v">>, FALSE) >>
      [] macro = "SearchNearestParameterD1" ->
           << Delegate("search_nearest_parameter", <<"pt", "hint", "trials">>,
                       "Option<f64>",
                       "search_nearest_parameter", <<"pt", "hint", "trials">>, FALSE) >>
      [] macro = "SearchNearestParameterD2" ->
           << Delegate("search_nearest_parameter", <<"pt", "hint", "trials">>,
                       "Option<(f64, f64)>",
                       "search_nearest_parameter", <<"pt", "hint", "trials">>, FALSE) >>
      [] macro = "SearchParameterD1" ->
           << Delegate("search_parameter", <<"pt", "hint", "trials">>,
                       "Option<f64>",
                       "search_nearest_parameter", <<"pt", "hint", "trials">>, FALSE) >>
      [] macro = "SearchParameterD2" ->
           << Delegate("search_parameter", <<"pt", "hint", "trials">>,
                       "Option<(f64, f64)>",
                       "search_nearest_parameter", <<"pt", "hint", "trials">>, FALSE) >>

\* the input of a derive macro: an enum with its variants, a struct (held as
\* the one variant "Self" with the struct's fields) or a union
DeriveInput(data, variants) == [data |-> data, variants |-> variants]

NoCall == [method |-> 0]

\* what a derive function returns: the generated methods, or a panic
derive(macro, input) ==
    CASE input.data = "Enum" ->
           IF \E i \in 1..Len(input.variants) : arm_panics(input.variants[i])
           THEN [status |-> "Panic", impl |-> <<>>]
           ELSE [status |-> "Ok",
                 impl |-> [k \in 1..Len(methods(macro)) |->
                              to_token_stream(methods(macro)[k], input.variants)]]
      [] input.data = "Struct" ->
           IF Len(input.variants[1].fields) # 1
              \/ input.variants[1].fields[1] # NoIdent
           THEN [status |-> "Panic", impl |-> <<>>]
           ELSE [status |-> "Ok", impl |-> struct_impl(macro)]
      [] OTHER -> [status |-> "Panic", impl |-> <<>>]

\* the inner call a generated method makes on a receiver, and what the
\* method returns: the arm whose pattern is the receiver's variant binds the
\* payload and calls the callee; the inner method's result is held as the
\* term of the call itself
call_method(m, receiver) ==
    LET arm == m.arms[CHOOSE i \in 1..Len(m.arms) : m.arms[i].pattern = receiver.variant]
        invoked == [trait |-> arm.callee.trait, name |-> arm.callee.name,
                    args |-> [k \in 1..Len(arm.args) |->
                                 IF arm.args[k] = arm.binding
                                 THEN receiver.payload ELSE arm.args[k]]]
    IN  [invoked |-> invoked, output |-> [variant |-> arm.wrap, value |-> invoked]]

NoDerive == [macro |-> NoIdent, input |-> DeriveInput("None", <<>>), status |-> "None",
             impl |-> <<>>, call |-> NoCall]

\* ------------------------------------------------------------------------
\* Bounds and inputs
\* ------------------------------------------------------------------------
\* try_new is given knot vectors of at most this many knots in total
MaxInputKnots == 8
\* add_uknot / add_vknot are taken while the two axes have fewer knots than this
MaxTotalKnots == 7
\* uknot_translate / vknot_translate keep every knot within this distance of 0
MaxShift == 3
\* add_uknot / add_vknot in the specification with translation and scalar
\* multiplication are taken while the two axes have fewer knots than this
MaxAllKnots == 5

P1(a) == <<R(a)>>

KnotVecInputs ==
    { <<>>,
      <<R(1), R(1), R(1)>>,
      <<R(0), R(2)>>,
      <<R(0), R(1), R(2)>>,
      <<R(0), R(0), R(2), R(2)>>,
      <<R(0), R(0), R(1), R(1), R(2), R(2)>> }

NetInputs ==
    { <<>>,
      << <<>> >>,
      << <<>>, <<P1(1)>> >>,
      << <<P1(1), P1(3)>> >>,
      << <<P1(1)>>, <<P1(3)>> >>,
      << <<P1(0), P1(1)>>, <<P1(3), P1(7)>> >>,
      << <<P1(1)>>, <<P1(2)>>, <<P1(5)>>, <<P1(2)>> >>,
      << <<P1(1), P1(2), P1(5), P1(2)>> >>,
      << <<P1(1), P1(2)>>, <<P1(3)>> >>,
      << <<P1(1)>>, <<P1(2), P1(3)>> >>,
      << <<P1(1), P1(2)>>, <<P1(3), P1(4)>>, <<P1(5)>> >> }

\* the knots offered to add_uknot / add_vknot: below, inside, on and above the knots
AddChoices == { R(-1), R(0), R(1), R(2), R(3) }

TranslateChoices == { R(1) }

ScalarChoices == { R(-1), R(0) }

\* ------------------------------------------------------------------------
\* State
\* ------------------------------------------------------------------------
VARIABLES
    surface,    \* the surface the program holds, NoSurface before construction
    before,     \* the receiver as it was before the last call (the input of try_new)
    call,       \* the last call: [op, x, idx]
    result,     \* what the last call returned: [status, err]
    returned,   \* the surface the last call returned by value, if any
    s5_calls,   \* the calls of scenario S5 made so far, 0 outside the scenario
    curves,     \* the curves handed to or returned by the last call, if any
    derived     \* the last expansion of a derive macro and the last call of a derived method

vars == <<surface, before, call, result, returned, s5_calls, curves, derived>>

Call(op, x, idx) == [op |-> op, x |-> x, idx |-> idx]
Returned(status, err) == [status |-> status, err |-> err]

Constructed == surface # NoSurface

Init ==
    /\ surface = NoSurface
    /\ before = NoSurface
    /\ call = Call("none", RZero, 0)
    /\ result = Returned("None", NoErr)
    /\ returned = NoSurface
    /\ s5_calls = 0
    /\ curves = <<>>
    /\ derived = NoDerive

TryNew ==
    \E Ku \in KnotVecInputs, Kv \in KnotVecInputs, net \in NetInputs :
        LET r == try_new(<<Ku, Kv>>, net)
        IN  /\ ~Constructed
            /\ Len(Ku) + Len(Kv) <= MaxInputKnots
            /\ before' = new_unchecked(<<Ku, Kv>>, net)
            /\ call' = Call("try_new", RZero, 0)
            /\ result' = Returned(r.status, r.err)
            /\ surface' = r.surface
            /\ returned' = NoSurface
            /\ UNCHANGED <<s5_calls, curves, derived>>

AddUKnotBelow(bound) ==
    /\ Constructed
    /\ Len(uknot_vec(surface)) + Len(vknot_vec(surface)) < bound
    /\ \E x \in AddChoices :
        /\ surface' = add_uknot(surface, x)
        /\ call' = Call("add_uknot", x, 0)
    /\ before' = surface
    /\ result' = Returned("Self", NoErr)
    /\ returned' = NoSurface
    /\ UNCHANGED <<s5_calls, curves, derived>>

AddVKnotBelow(bound) ==
    /\ Constructed
    /\ Len(uknot_vec(surface)) + Len(vknot_vec(surface)) < bound
    /\ \E x \in AddChoices :
        /\ surface' = add_vknot(surface, x)
        /\ call' = Call("add_vknot", x, 0)
    /\ before' = surface
    /\ result' = Returned("Self", NoErr)
    /\ returned' = NoSurface
    /\ UNCHANGED <<s5_calls, curves, derived>>

AddUKnot == AddUKnotBelow(MaxTotalKnots)
AddVKnot == AddVKnotBelow(MaxTotalKnots)
AddUKnotAll == AddUKnotBelow(MaxAllKnots)
AddVKnotAll == AddVKnotBelow(MaxAllKnots)

TryRemoveUKnot ==
    /\ Constructed
    /\ \E idx \in 0..Len(uknot_vec(surface)) :
        LET r == try_remove_uknot(surface, idx)
        IN  /\ surface' = r.surface
            /\ call' = Call("try_remove_uknot", RZero, idx)
            /\ result' = Returned(r.status, r.err)
    /\ before' = surface
    /\ returned' = NoSurface
    /\ UNCHANGED <<s5_calls, curves, derived>>

TryRemoveVKnot ==
    /\ Constructed
    /\ \E idx \in 0..Len(vknot_vec(surface)) :
        LET r == try_remove_vknot(surface, idx)
        IN  /\ surface' = r.surface
            /\ call' = Call("try_remove_vknot", RZero, idx)
            /\ result' = Returned(r.status, r.err)
    /\ before' = surface
    /\ returned' = NoSurface
    /\ UNCHANGED <<s5_calls, curves, derived>>

RemoveUKnot ==
    /\ Constructed
    /\ \E idx \in 0..Len(uknot_vec(surface)) :
        /\ surface' = remove_uknot(surface, idx)
        /\ call' = Call("remove_uknot", RZero, idx)
    /\ before' = surface
    /\ result' = Returned("Self", NoErr)
    /\ returned' = NoSurface
    /\ UNCHANGED <<s5_calls, curves, derived>>

RemoveVKnot ==
    /\ Constructed
    /\ \E idx \in 0..Len(vknot_vec(surface)) :
        /\ surface' = remove_vknot(surface, idx)
        /\ call' = Call("remove_vknot", RZero, idx)
    /\ before' = surface
    /\ result' = Returned("Self", NoErr)
    /\ returned' = NoSurface
    /\ UNCHANGED <<s5_calls, curves, derived>>

SwapAxes ==
    /\ Constructed
    /\ surface' = swap_axes(surface)
    /\ before' = surface
    /\ call' = Call("swap_axes", RZero, 0)
    /\ result' = Returned("Self", NoErr)
    /\ returned' = NoSurface
    /\ UNCHANGED <<s5_calls, curves, derived>>

Optimize ==
    /\ Constructed
    /\ surface' = optimize(surface)
    /\ before' = surface
    /\ call' = Call("optimize", RZero, 0)
    /\ result' = Returned("Self", NoErr)
    /\ returned' = NoSurface
    /\ UNCHANGED <<s5_calls, curves, derived>>

UKnotTranslate ==
    /\ Constructed
    /\ \E x \in TranslateChoices :
        /\ \A i \in 1..Len(uknot_vec(surface)) :
               RLe(RAbs(RAdd(uknot_vec(surface)[i], x)), R(MaxShift))
        /\ surface' = uknot_translate(surface, x)
        /\ call' = Call("uknot_translate", x, 0)
    /\ before' = surface
    /\ result' = Returned("Self", NoErr)
    /\ returned' = NoSurface
    /\ UNCHANGED <<s5_calls, curves, derived>>

VKnotTranslate ==
    /\ Constructed
    /\ \E x \in TranslateChoices :
        /\ \A i \in 1..Len(vknot_vec(surface)) :
               RLe(RAbs(RAdd(vknot_vec(surface)[i], x)), R(MaxShift))
        /\ surface' = vknot_translate(surface, x)
        /\ call' = Call("vknot_translate", x, 0)
    /\ before' = surface
    /\ result' = Returned("Self", NoErr)
    /\ returned' = NoSurface
    /\ UNCHANGED <<s5_calls, curves, derived>>

MulAssignScalar ==
    /\ Constructed
    /\ \E c \in ScalarChoices :
        /\ surface' = mul_assign(surface, c)
        /\ call' = Call("mul_assign", c, 0)
    /\ before' = surface
    /\ result' = Returned("Self", NoErr)
    /\ returned' = NoSurface
    /\ UNCHANGED <<s5_calls, curves, derived>>

UDerivation ==
    /\ Constructed
    /\ returned' = uderivation(surface)
    /\ before' = surface
    /\ call' = Call("uderivation", RZero, 0)
    /\ result' = Returned("Surface", NoErr)
    /\ UNCHANGED <<surface, s5_calls, curves, derived>>

VDerivation ==
    /\ Constructed
    /\ returned' = vderivation(surface)
    /\ before' = surface
    /\ call' = Call("vderivation", RZero, 0)
    /\ result' = Returned("Surface", NoErr)
    /\ UNCHANGED <<surface, s5_calls, curves, derived>>

Next ==
    \/ TryNew
    \/ AddUKnot
    \/ AddVKnot
    \/ TryRemoveUKnot
    \/ TryRemoveVKnot
    \/ RemoveUKnot
    \/ RemoveVKnot
    \/ SwapAxes
    \/ Optimize
    \/ UDerivation
    \/ VDerivation

\* the knot operations on surfaces of up to MaxTotalKnots knots
Spec == Init /\ [][Next]_vars

NextAll ==
    \/ TryNew
    \/ AddUKnotAll
    \/ AddVKnotAll
    \/ TryRemoveUKnot
    \/ TryRemoveVKnot
    \/ RemoveUKnot
    \/ RemoveVKnot
    \/ SwapAxes
    \/ Optimize
    \/ UKnotTranslate
    \/ VKnotTranslate
    \/ MulAssignScalar
    \/ UDerivation
    \/ VDerivation

\* every operation, on surfaces of up to MaxAllKnots knots
SpecAll == Init /\ [][NextAll]_vars

\* the surface compared with the surface before the last call (idx 0) or with
\* the surface that the last call returned (idx 1)
Other == IF call.idx = 0 THEN before ELSE returned

NearAsSurface ==
    /\ Constructed
    /\ \E op \in NearVariants, which \in {0, 1} :
          LET other == IF which = 0 THEN before ELSE returned
          IN  /\ other # NoSurface
              /\ call' = Call(op, RZero, which)
              /\ result' = Returned(IF near_call(op, surface, other)
                                    THEN "true" ELSE "false", NoErr)
    /\ UNCHANGED <<surface, before, returned, s5_calls, curves, derived>>

NextNear ==
    \/ TryNew
    \/ AddUKnot
    \/ AddVKnot
    \/ UDerivation
    \/ VDerivation
    \/ NearAsSurface

\* the comparisons of a surface with an earlier or a derived surface
SpecNear == Init /\ [][NextNear]_vars

\* ------------------------------------------------------------------------
\* Scenario S5: four knots added to the bilinear patch S3, then four removals
\* ------------------------------------------------------------------------
S3KnotVecs ==
    << <<R(0), R(0), R(1), R(1)>>, <<R(0), R(0), R(0), R(1), R(1), R(1)>> >>

S3Net ==
    << << <<R(0), R(0)>>, <<Rat(1, 2), R(-1)>>, <<R(1), R(0)>> >>,
       << <<R(0), R(1)>>, <<Rat(1, 2), R(2)>>, <<R(1), R(1)>> >> >>

S3 == new_unchecked(S3KnotVecs, S3Net)

S5Adds == <<R(0), Rat(3, 10), Rat(1, 2), R(1)>>

InitS5 ==
    /\ surface = try_new(S3KnotVecs, S3Net).surface
    /\ before = S3
    /\ call = Call("try_new", RZero, 0)
    /\ result = Returned("Ok", NoErr)
    /\ returned = NoSurface
    /\ s5_calls = 0
    /\ curves = <<>>
    /\ derived = NoDerive

S5AddUKnot ==
    /\ s5_calls < Len(S5Adds)
    /\ surface' = add_uknot(surface, S5Adds[s5_calls + 1])
    /\ call' = Call("add_uknot", S5Adds[s5_calls + 1], 0)
    /\ before' = surface
    /\ result' = Returned("Self", NoErr)
    /\ returned' = NoSurface
    /\ s5_calls' = s5_calls + 1
    /\ UNCHANGED <<curves, derived>>

S5RemoveUKnot ==
    /\ s5_calls >= Len(S5Adds)
    /\ s5_calls < 2 * Len(S5Adds)
    /\ \E idx \in 0..Len(uknot_vec(surface)) :
        /\ surface' = remove_uknot(surface, idx)
        /\ call' = Call("remove_uknot", RZero, idx)
    /\ before' = surface
    /\ result' = Returned("Self", NoErr)
    /\ returned' = NoSurface
    /\ s5_calls' = s5_calls + 1
    /\ UNCHANGED <<curves, derived>>

NextS5 ==
    \/ S5AddUKnot
    \/ S5RemoveUKnot

SpecS5 == InitS5 /\ [][NextS5]_vars

\* ------------------------------------------------------------------------
\* optimize, one pass of its loop per step
\* ------------------------------------------------------------------------
InOptimize == call.op = "optimize" /\ result.status = "Loop"

OptAddUKnot == ~InOptimize /\ AddUKnot

OptAddVKnot == ~InOptimize /\ AddVKnot

\* the call of optimize with the removal attempts of its last pass
OptimizeCall(attempts) ==
    [op |-> "optimize", x |-> RZero, idx |-> 0, attempts |-> attempts]

OptimizeBegin ==
    /\ Constructed
    /\ ~InOptimize
    /\ before' = surface
    /\ call' = OptimizeCall(<<>>)
    /\ result' = Returned("Loop", NoErr)
    /\ UNCHANGED <<surface, returned, s5_calls, curves, derived>>

OptimizePass ==
    /\ InOptimize
    /\ \E pass \in {optimize_pass(surface)} :
        /\ surface' = pass.surface
        /\ call' = OptimizeCall(pass.calls)
        /\ result' = IF pass.flag
                     THEN Returned("Self", NoErr)
                     ELSE Returned("Loop", NoErr)
    /\ UNCHANGED <<before, returned, s5_calls, curves, derived>>

NextOptimize ==
    \/ TryNew
    \/ OptAddUKnot
    \/ OptAddVKnot
    \/ OptimizeBegin
    \/ OptimizePass

SpecOptimize == Init /\ [][NextOptimize]_vars

\* ------------------------------------------------------------------------
Valid(S) ==
    /\ Len(S.control_points) >= 1
    /\ Len(S.control_points[1]) >= 1
    /\ \A r \in 1..Len(S.control_points) :
           Len(S.control_points[r]) = Len(S.control_points[1])
    /\ Len(uknot_vec(S)) > Rows(S)
    /\ Len(vknot_vec(S)) > Cols(S)
    /\ IsSorted(uknot_vec(S))
    /\ IsSorted(vknot_vec(S))
    /\ RLt(RZero, range_length(uknot_vec(S)))
    /\ RLt(RZero, range_length(vknot_vec(S)))

\* ------------------------------------------------------------------------
\* Surfaces made from curves
\* ------------------------------------------------------------------------
CurveInputs ==
    { new_curve(<<R(0), R(0), R(1), R(1)>>, <<P1(1), P1(3)>>),
      new_curve(<<R(0), R(0), R(1), R(1)>>, <<P1(0), P1(2)>>),
      new_curve(<<R(0), R(0), R(0), R(1), R(1), R(1)>>, <<P1(1), P1(5), P1(2)>>),
      new_curve(<<R(0), R(0), R(1), R(2), R(2)>>, <<P1(1), P1(4), P1(2)>>),
      new_curve(<<R(0), R(0), R(1), R(2), R(2)>>, <<P1(0), P1(1), P1(2)>>),
      new_curve(<<R(0), R(0), R(1), R(3), R(3)>>, <<P1(2), P1(0), P1(1)>>) }

\* the edges handed to by_boundary
EdgeInputs ==
    { new_curve(<<R(0), R(0), R(1), R(1)>>, <<P1(1), P1(3)>>),
      new_curve(<<R(0), R(0), R(0), R(1), R(1), R(1)>>, <<P1(1), P1(5), P1(2)>>),
      new_curve(<<R(0), R(0), R(1), R(2), R(2)>>, <<P1(1), P1(4), P1(2)>>),
      new_curve(<<R(0), R(0), R(1), R(3), R(3)>>, <<P1(2), P1(0), P1(1)>>) }

\* degree elevation is modelled for curves of a single span
CanSyncroDegree(c0, c1) ==
    /\ curve_degree(c0) < curve_degree(c1) => is_bezier(c0)
    /\ curve_degree(c1) < curve_degree(c0) => is_bezier(c1)

\* homotopy and by_boundary are constructors: they start a behaviour
Homotopy ==
    \E c0 \in CurveInputs, c1 \in CurveInputs :
        /\ surface = NoSurface
        /\ CanSyncroDegree(c0, c1)
        /\ curves' = <<c0, c1>>
        /\ surface' = homotopy(c0, c1)
        /\ before' = NoSurface
        /\ call' = Call("homotopy", RZero, 0)
        /\ result' = Returned("Surface", NoErr)
        /\ returned' = NoSurface
        /\ UNCHANGED <<s5_calls, derived>>

ByBoundary ==
    \E c0 \in EdgeInputs, c1 \in EdgeInputs, c2 \in EdgeInputs, c3 \in EdgeInputs :
        /\ surface = NoSurface
        /\ CanSyncroDegree(c0, curve_invert(c2))
        /\ CanSyncroDegree(c1, curve_invert(c3))
        /\ curves' = <<c0, c1, c2, c3>>
        /\ \E r \in {by_boundary(c0, c1, c2, c3)} :
               /\ result' = Returned(r.status, r.err)
               /\ surface' = r.surface
        /\ before' = NoSurface
        /\ call' = Call("by_boundary", RZero, 0)
        /\ returned' = NoSurface
        /\ UNCHANGED <<s5_calls, derived>>

\* boundary of a surface whose degrees agree; the curves kept are the four
\* edges handed to concat and the curve returned
Boundary ==
    /\ Constructed
    /\ udegree(surface) = vdegree(surface)
    /\ curves' = boundary_edges(surface) \o <<boundary(surface)>>
    /\ before' = surface
    /\ call' = Call("boundary", RZero, 0)
    /\ result' = Returned("Curve", NoErr)
    /\ returned' = NoSurface
    /\ UNCHANGED <<surface, s5_calls, derived>>

NextCurves ==
    \/ Homotopy
    \/ ByBoundary
    \/ UKnotTranslate
    \/ VKnotTranslate
    \/ Boundary

SpecCurves == Init /\ [][NextCurves]_vars

\* ------------------------------------------------------------------------
\* The algebraic operators on surfaces of points of dimension 2
\* ------------------------------------------------------------------------
P2(a, b) == <<R(a), R(b)>>

OpsKnotVecs ==
    { << <<R(0), R(0), R(1), R(1)>>, <<R(0), R(1)>> >>,
      << <<R(0), R(1), R(2)>>, <<R(0), R(0), R(2), R(2)>> >>,
      << <<R(0), R(0), R(2), R(2)>>, <<R(1), R(1), R(3), R(3)>> >> }

OpsNets ==
    { << <<P2(1, 2)>>, <<P2(3, 0)>> >>,
      << <<P2(1, 0), P2(2, 5)>> >>,
      << <<P2(0, 1), P2(1, 2)>>, <<P2(3, 4), P2(7, 1)>> >> }

\* a quarter turn, the exchange of the coordinates, the projection on the first
Matrices ==
    << << <<R(0), R(-1)>>, <<R(1), R(0)>> >>,
       << <<R(0), R(1)>>, <<R(1), R(0)>> >>,
       << <<R(1), R(0)>>, <<R(0), R(0)>> >> >>

NewOps ==
    \E kv \in OpsKnotVecs, net \in OpsNets :
        /\ try_new(kv, net).status = "Ok"
        /\ surface' = new(kv, net).surface
        /\ before' = NoSurface
        /\ call' = Call("new", RZero, 0)
        /\ result' = Returned("Surface", NoErr)
        /\ returned' = NoSurface
        /\ UNCHANGED <<s5_calls, curves, derived>>

\* surface *= mat and surface *= &mat
MulAssignMatrix ==
    /\ Constructed
    /\ \E op \in {"mul_assign_matrix", "mul_assign_matrix_ref"}, m \in 1..Len(Matrices) :
        /\ surface' = mul_assign_matrix(surface, Matrices[m])
        /\ call' = Call(op, RZero, m)
    /\ before' = surface
    /\ result' = Returned("Unit", NoErr)
    /\ returned' = NoSurface
    /\ UNCHANGED <<s5_calls, curves, derived>>

\* &surface * &mat and &surface * mat: a clone is multiplied and returned
MulMatrixRef ==
    /\ Constructed
    /\ \E op \in {"ref_mul_matrix_ref", "ref_mul_matrix"}, m \in 1..Len(Matrices) :
        /\ returned' = mul_assign_matrix(surface, Matrices[m])
        /\ call' = Call(op, RZero, m)
    /\ before' = surface
    /\ result' = Returned("Surface", NoErr)
    /\ UNCHANGED <<surface, s5_calls, curves, derived>>

\* surface * &mat and surface * mat: the surface moved in is multiplied and returned
MulMatrixOwned ==
    /\ Constructed
    /\ \E op \in {"mul_matrix_ref", "mul_matrix"}, m \in 1..Len(Matrices) :
        /\ surface' = mul_assign_matrix(surface, Matrices[m])
        /\ call' = Call(op, RZero, m)
    /\ before' = surface
    /\ result' = Returned("Surface", NoErr)
    /\ returned' = NoSurface
    /\ UNCHANGED <<s5_calls, curves, derived>>

\* &mat * &surface and mat * &surface
MatrixMulRef ==
    /\ Constructed
    /\ \E op \in {"matrix_ref_mul_ref", "matrix_mul_ref"}, m \in 1..Len(Matrices) :
        /\ returned' = matrix_mul(Matrices[m], surface)
        /\ call' = Call(op, RZero, m)
    /\ before' = surface
    /\ result' = Returned("Surface", NoErr)
    /\ UNCHANGED <<surface, s5_calls, curves, derived>>

\* &mat * surface and mat * surface
MatrixMulOwned ==
    /\ Constructed
    /\ \E op \in {"matrix_ref_mul", "matrix_mul"}, m \in 1..Len(Matrices) :
        /\ surface' = matrix_mul(Matrices[m], surface)
        /\ call' = Call(op, RZero, m)
    /\ before' = surface
    /\ result' = Returned("Surface", NoErr)
    /\ returned' = NoSurface
    /\ UNCHANGED <<s5_calls, curves, derived>>

\* &surface * scalar
MulScalarRef ==
    /\ Constructed
    /\ \E c \in ScalarChoices :
        /\ returned' = mul_assign(surface, c)
        /\ call' = Call("ref_mul_scalar", c, 0)
    /\ before' = surface
    /\ result' = Returned("Surface", NoErr)
    /\ UNCHANGED <<surface, s5_calls, curves, derived>>

\* surface * scalar
MulScalarOwned ==
    /\ Constructed
    /\ \E c \in ScalarChoices :
        /\ surface' = mul_assign(surface, c)
        /\ call' = Call("mul_scalar", c, 0)
    /\ before' = surface
    /\ result' = Returned("Surface", NoErr)
    /\ returned' = NoSurface
    /\ UNCHANGED <<s5_calls, curves, derived>>

\* scalar * &surface
ScalarMulRef ==
    /\ Constructed
    /\ \E c \in ScalarChoices :
        /\ returned' = scalar_mul(c, surface)
        /\ call' = Call("scalar_mul_ref", c, 0)
    /\ before' = surface
    /\ result' = Returned("Surface", NoErr)
    /\ UNCHANGED <<surface, s5_calls, curves, derived>>

KnotNormalize ==
    /\ Constructed
    /\ \E r \in {knot_normalize(surface)} :
          /\ surface' = r.surface
          /\ result' = Returned(IF r.status = "Ok" THEN "Self" ELSE "Panic", NoErr)
    /\ before' = surface
    /\ call' = Call("knot_normalize", RZero, 0)
    /\ returned' = NoSurface
    /\ UNCHANGED <<s5_calls, curves, derived>>

NextOps ==
    \/ NewOps
    \/ MulAssignMatrix
    \/ MulMatrixRef
    \/ MulMatrixOwned
    \/ MatrixMulRef
    \/ MatrixMulOwned
    \/ MulAssignScalar
    \/ MulScalarRef
    \/ MulScalarOwned
    \/ ScalarMulRef

SpecOps == Init /\ [][NextOps]_vars

NextKnots ==
    \/ NewOps
    \/ KnotNormalize
    \/ UKnotTranslate
    \/ VKnotTranslate

\* normalisation and translation of the knot vectors
SpecKnots == Init /\ [][NextKnots]_vars

\* ------------------------------------------------------------------------
\* Deriving a trait and calling a derived method
\* ------------------------------------------------------------------------
\* an enum given to a derive macro has at most this many variants
MaxVariants == 2

VariantNames == <<"A", "B", "C", "D">>

\* the fields of a variant or struct: one tuple field, one named field, none, two
FieldShapes == { <<NoIdent>>, <<"inner">>, <<>>, <<NoIdent, NoIdent>> }

EnumInputs ==
    UNION { { DeriveInput("Enum", [i \in 1..n |-> [ident |-> VariantNames[i], fields |-> f[i]]]) :
                f \in [1..n -> FieldShapes] } : n \in 1..MaxVariants }

StructInputs ==
    { DeriveInput("Struct", << [ident |-> "Self", fields |-> f] >>) : f \in FieldShapes }

DeriveInputs == EnumInputs \cup StructInputs \cup { DeriveInput("Union", <<>>) }

\* the inner values a receiver can carry
Payloads == { "p0", "p1" }

\* a derive macro expands on a type definition
Derive ==
    \E macro \in DeriveMacros, input \in DeriveInputs :
        /\ derived.status = "None"
        /\ derived' = [macro |-> macro, input |-> input,
                       status |-> derive(macro, input).status,
                       impl |-> derive(macro, input).impl,
                       call |-> NoCall]
        /\ UNCHANGED <<surface, before, call, result, returned, s5_calls, curves>>

\* a generated method is called on a value of the type
CallMethod ==
    \E k \in 1..Len(derived.impl), v \in 1..Len(derived.input.variants), p \in Payloads :
        LET receiver == [variant |-> derived.input.variants[v].ident, payload |-> p]
            r == call_method(derived.impl[k], receiver)
        IN  /\ derived.status = "Ok"
            /\ derived' = [derived EXCEPT !.call =
                              [method |-> k, receiver |-> receiver,
                               invoked |-> r.invoked, output |-> r.output]]
            /\ UNCHANGED <<surface, before, call, result, returned, s5_calls, curves>>

NextDerive ==
    \/ Derive
    \/ CallMethod

SpecDerive == Init /\ [][NextDerive]_vars

\* ------------------------------------------------------------------------
\* Knot insertion on surfaces of degree 2 and 3
\* ------------------------------------------------------------------------
\* add_uknot / add_vknot are taken while the two axes have fewer knots than this
MaxInsertKnots == 10

\* clamped of degree 2 and 3 and unclamped of degree 2 in u or in v, over
\* one column or one row
InsertKnotVecs ==
    { << <<R(0), R(0), R(0), R(2), R(2), R(2)>>, <<R(0), R(2)>> >>,
      << <<R(0), R(0), R(0), R(0), R(2), R(2), R(2), R(2)>>, <<R(0), R(2)>> >>,
      << <<R(0), R(1), R(2), R(3), R(3)>>, <<R(0), R(2)>> >>,
      << <<R(0), R(2)>>, <<R(0), R(0), R(0), R(2), R(2), R(2)>> >>,
      << <<R(0), R(2)>>, <<R(0), R(1), R(2), R(3), R(3)>> >> }

InsertNets ==
    { << <<P1(1)>>, <<P1(3)>>, <<P1(7)>> >>,
      << <<P1(1)>>, <<P1(2)>>, <<P1(5)>>, <<P1(11)>> >>,
      << <<P1(1)>>, <<P1(4)>> >>,
      << <<P1(1), P1(3), P1(7)>> >>,
      << <<P1(1), P1(4)>> >> }

NewInsert ==
    \E kv \in InsertKnotVecs, net \in InsertNets :
        /\ ~Constructed
        /\ try_new(kv, net).status = "Ok"
        /\ surface' = new(kv, net).surface
        /\ before' = NoSurface
        /\ call' = Call("new", RZero, 0)
        /\ result' = Returned("Surface", NoErr)
        /\ returned' = NoSurface
        /\ UNCHANGED <<s5_calls, curves, derived>>

InsertUKnot == AddUKnotBelow(MaxInsertKnots)

InsertVKnot == AddVKnotBelow(MaxInsertKnots)

NextInsert ==
    \/ NewInsert
    \/ InsertUKnot
    \/ InsertVKnot

SpecInsert == Init /\ [][NextInsert]_vars

\* ------------------------------------------------------------------------
\* Comparing two surfaces built independently
\* ------------------------------------------------------------------------
\* surfaces over the u range [0, 2] and the v range [0, 1], and one over
\* another u range, with points of dimension 2 whose last component is not 0:
\* u |-> u on the knots [0,0,2,2], the same function on [0,0,1,2,2], a
\* surface on [0,0,1,2,2] that differs from it at u = 1 only between the
\* knots 0 and 2, a surface with the same projection at u = 0 only, two
\* constants of degree 0, a surface of degree 0 in u
PairInputs ==
    { << << <<R(0), R(0), R(2), R(2)>>, <<R(0), R(0), R(1), R(1)>> >>,
         << <<P2(0, 1), P2(0, 1)>>, <<P2(2, 1), P2(2, 1)>> >> >>,
      << << <<R(0), R(0), R(1), R(2), R(2)>>, <<R(0), R(0), R(1), R(1)>> >>,
         << <<P2(0, 1), P2(0, 1)>>, <<P2(1, 1), P2(1, 1)>>, <<P2(2, 1), P2(2, 1)>> >> >>,
      << << <<R(0), R(0), R(1), R(2), R(2)>>, <<R(0), R(0), R(1), R(1)>> >>,
         << <<P2(0, 1), P2(0, 1)>>, <<P2(5, 1), P2(5, 1)>>, <<P2(2, 1), P2(2, 1)>> >> >>,
      << << <<R(0), R(0), R(2), R(2)>>, <<R(0), R(0), R(1), R(1)>> >>,
         << <<P2(0, 1), P2(0, 1)>>, <<P2(4, 2), P2(4, 2)>> >> >>,
      << << <<R(0), R(2)>>, <<R(0), R(1)>> >>,
         << <<P2(3, 1)>> >> >>,
      << << <<R(0), R(2)>>, <<R(0), R(1)>> >>,
         << <<P2(7, 1)>> >> >>,
      << << <<R(0), R(2)>>, <<R(0), R(0), R(1), R(1)>> >>,
         << <<P2(0, 1), P2(2, 1)>> >> >>,
      << << <<R(0), R(0), R(3), R(3)>>, <<R(0), R(0), R(1), R(1)>> >>,
         << <<P2(0, 1), P2(0, 1)>>, <<P2(2, 1), P2(2, 1)>> >> >> }

NewNear ==
    \E in \in PairInputs :
        /\ ~Constructed
        /\ surface' = new(in[1], in[2]).surface
        /\ before' = NoSurface
        /\ call' = Call("new", RZero, 0)
        /\ result' = Returned("Surface", NoErr)
        /\ returned' = NoSurface
        /\ UNCHANGED <<s5_calls, curves, derived>>

\* one of the four comparisons of the surface with another surface, which
\* is kept in returned
NearAsSurfaceOf ==
    /\ Constructed
    /\ \E op \in NearVariants, in \in PairInputs :
        \E other \in {new(in[1], in[2]).surface} :
            /\ returned' = other
            /\ call' = Call(op, RZero, 1)
            /\ result' = Returned(IF near_call(op, surface, other)
                                  THEN "true" ELSE "false", NoErr)
    /\ UNCHANGED <<surface, before, s5_calls, curves, derived>>

NextPairs ==
    \/ NewNear
    \/ NearAsSurfaceOf

SpecPairs == Init /\ [][NextPairs]_vars

\* ------------------------------------------------------------------------
\* by_boundary on short edges, and the edges split off again
\* ------------------------------------------------------------------------
\* edges of one control point (of degree 0 and of degree 1), the segments
\* from 1 to 3 and from 3 to 1, and a parabola from 1 to 3
ShortEdgeInputs ==
    { new_curve(<<R(0), R(1)>>, <<P1(1)>>),
      new_curve(<<R(0), R(1), R(2)>>, <<P1(1)>>),
      new_curve(<<R(0), R(0), R(1), R(1)>>, <<P1(1), P1(3)>>),
      new_curve(<<R(0), R(0), R(1), R(1)>>, <<P1(3), P1(1)>>),
      new_curve(<<R(0), R(0), R(0), R(1), R(1), R(1)>>, <<P1(1), P1(5), P1(3)>>) }

ByBoundaryShort ==
    \E c0 \in ShortEdgeInputs, c1 \in ShortEdgeInputs,
       c2 \in ShortEdgeInputs, c3 \in ShortEdgeInputs :
        /\ surface = NoSurface
        /\ call.op = "none"
        /\ CanSyncroDegree(c0, curve_invert(c2))
        /\ CanSyncroDegree(c1, curve_invert(c3))
        /\ curves' = <<c0, c1, c2, c3>>
        /\ \E r \in {by_boundary(c0, c1, c2, c3)} :
               /\ result' = Returned(r.status, r.err)
               /\ surface' = r.surface
        /\ before' = NoSurface
        /\ call' = Call("by_boundary", RZero, 0)
        /\ returned' = NoSurface
        /\ UNCHANGED <<s5_calls, derived>>

\* splitted_boundary of the surface by_boundary returned; the four edges
\* are kept after the four curves by_boundary was given
SplittedBoundary ==
    /\ Constructed
    /\ call.op = "by_boundary"
    /\ curves' = curves \o splitted_boundary(surface)
    /\ before' = surface
    /\ call' = Call("splitted_boundary", RZero, 0)
    /\ result' = Returned("Curves", NoErr)
    /\ returned' = NoSurface
    /\ UNCHANGED <<surface, s5_calls, derived>>

NextEdges ==
    \/ ByBoundaryShort
    \/ SplittedBoundary

SpecEdges == Init /\ [][NextEdges]_vars

\* ------------------------------------------------------------------------
\* Sample parameters
\* ------------------------------------------------------------------------
Fracs == { RZero, <<1, 3>>, <<1, 2>>, <<3, 4>> }

\* the points at the given fractions of every non-empty span of K, and the last knot
SpanSamples(K, fracs) ==
    { RAdd(K[i], RMul(f, RSub(K[i + 1], K[i]))) :
        i \in {i \in 1..(Len(K) - 1) : RLt(K[i], K[i + 1])}, f \in fracs }
    \cup { Last(K) }

\* the samples of K that lie in the domain of the knot vector D
DomainSamples(K, D, fracs) ==
    { t \in SpanSamples(K, fracs) : RLe(At(D, 0), t) /\ RLe(t, Last(D)) }

InRange(K, x) == RLe(At(K, 0), x) /\ RLe(x, Last(K))

\* the two surfaces take the same value at every sample of the domain of A
SameFunction(A, B) ==
    \A u \in DomainSamples(uknot_vec(A), uknot_vec(B), Fracs)
             \cup DomainSamples(uknot_vec(B), uknot_vec(A), Fracs) :
        \A v \in DomainSamples(vknot_vec(A), vknot_vec(B), Fracs)
                 \cup DomainSamples(vknot_vec(B), vknot_vec(A), Fracs) :
            subs(A, u, v) = subs(B, u, v)

NearFunction(A, B) ==
    \A u \in DomainSamples(uknot_vec(A), uknot_vec(B), Fracs)
             \cup DomainSamples(uknot_vec(B), uknot_vec(A), Fracs) :
        \A v \in DomainSamples(vknot_vec(A), vknot_vec(B), Fracs)
                 \cup DomainSamples(vknot_vec(B), vknot_vec(A), Fracs) :
            VNear(subs(A, u, v), subs(B, u, v))

\* ------------------------------------------------------------------------
\* Properties
\* ------------------------------------------------------------------------
AcceptedInput(S) ==
    /\ Len(S.control_points) >= 1
    /\ Len(S.control_points[1]) >= 1
    /\ Len(uknot_vec(S)) > Len(S.control_points)
    /\ Len(vknot_vec(S)) > Len(S.control_points[1])
    /\ ~so_small(range_length(uknot_vec(S)))
    /\ ~so_small(range_length(vknot_vec(S)))
    /\ \A r \in 1..Len(S.control_points) :
           Len(S.control_points[r]) = Len(S.control_points[1])

\* C1: try_new returns Ok exactly when the net is non-empty, row 0 is
\* non-empty, both knot vectors are longer than their axis, neither range is
\* so_small and all rows have the length of row 0; otherwise it returns Err
\* and no surface is constructed.
C1_TryNewOkIff ==
    call.op = "try_new" =>
        /\ (result.status = "Ok") <=> AcceptedInput(before)
        /\ result.status = "Ok" => surface = before
        /\ result.status # "Ok" => (result.status = "Err" /\ surface = NoSurface)

C1_Witness ==
    /\ call.op = "try_new"
    /\ result.status = "Err"
    /\ Len(before.control_points) >= 2
    /\ Len(before.control_points[1]) >= 1
    /\ Len(uknot_vec(before)) > Len(before.control_points)
    /\ Len(vknot_vec(before)) > Len(before.control_points[1])
    /\ \E r \in 1..Len(before.control_points) :
           Len(before.control_points[r]) # Len(before.control_points[1])

FirstFailure(S) ==
    IF Len(S.control_points) = 0 \/ Len(S.control_points[1]) = 0
    THEN <<"EmptyControlPoints", 0, 0>>
    ELSE IF Len(uknot_vec(S)) <= Len(S.control_points)
    THEN <<"TooShortKnotVector", Len(uknot_vec(S)), Len(S.control_points)>>
    ELSE IF Len(vknot_vec(S)) <= Len(S.control_points[1])
    THEN <<"TooShortKnotVector", Len(vknot_vec(S)), Len(S.control_points[1])>>
    ELSE IF so_small(range_length(uknot_vec(S))) \/ so_small(range_length(vknot_vec(S)))
    THEN <<"ZeroRange", 0, 0>>
    ELSE <<"IrregularControlPoints", 0, 0>>

\* C2: a rejected try_new reports the first failing check in the order
\* EmptyControlPoints, TooShortKnotVector(|Ku|, rows),
\* TooShortKnotVector(|Kv|, length of row 0), ZeroRange, IrregularControlPoints.
C2_TryNewErrorOrder ==
    (call.op = "try_new" /\ result.status = "Err") => result.err = FirstFailure(before)

\* both knot vectors are too short, with different payloads, and u is reported
C2_Witness ==
    /\ call.op = "try_new"
    /\ result.status = "Err"
    /\ Len(before.control_points) >= 1
    /\ Len(before.control_points[1]) >= 1
    /\ Len(uknot_vec(before)) <= Len(before.control_points)
    /\ Len(vknot_vec(before)) <= Len(before.control_points[1])
    /\ <<Len(uknot_vec(before)), Len(before.control_points)>>
           # <<Len(vknot_vec(before)), Len(before.control_points[1])>>
    /\ result.err = <<"TooShortKnotVector", Len(uknot_vec(before)),
                      Len(before.control_points)>>

\* C3: every surface reached from a successful try_new by the mutators, and
\* every surface returned by uderivation / vderivation, has a regular
\* non-empty net, knot vectors longer than their axis, sorted, of range > 0.
C3_SurfaceInvariant ==
    /\ Constructed => (Valid(surface) /\ udegree(surface) >= 0 /\ vdegree(surface) >= 0)
    /\ call.op \in {"uderivation", "vderivation"} =>
           (Valid(returned) /\ udegree(returned) >= 0 /\ vdegree(returned) >= 0)

C3_Witness ==
    /\ call.op = "uderivation"
    /\ udegree(before) = 0
    /\ Rows(before) >= 2
    /\ Valid(returned)

MutatorCalls ==
    {"add_uknot", "add_vknot", "try_remove_uknot", "try_remove_vknot",
     "remove_uknot", "remove_vknot"}

C5_AddKnotPreservesSubs ==
    /\ (call.op = "add_uknot" /\ InRange(uknot_vec(before), call.x)) =>
           SameFunction(before, surface)
    /\ (call.op = "add_vknot" /\ InRange(vknot_vec(before), call.x)) =>
           SameFunction(before, surface)

\* the inserted knot coincides with an interior knot that is already there
C5_Witness ==
    /\ call.op = "add_uknot"
    /\ RLt(At(uknot_vec(before), 0), call.x)
    /\ RLt(call.x, Last(uknot_vec(before)))
    /\ \E i \in 1..Len(uknot_vec(before)) : uknot_vec(before)[i] = call.x
    /\ udegree(before) >= 1
    /\ SameFunction(before, surface)

\* the round trip of the last add_uknot / add_vknot, when the claim covers it
URoundTrip ==
    LET idx == add_knot_idx(uknot_vec(before), call.x)
        r == try_remove_uknot(surface, idx)
    IN  (udegree(before) + 1 <= idx /\ idx < Rows(surface)) =>
            (r.status = "Ok" /\ r.surface = before)

VRoundTrip ==
    LET idx == add_knot_idx(vknot_vec(before), call.x)
        r == try_remove_vknot(surface, idx)
    IN  (vdegree(before) + 1 <= idx /\ idx < Cols(surface)) =>
            (r.status = "Ok" /\ r.surface = before)

\* C6: after add_uknot(x) with x in [Ku[0], Ku[last]] put the knot at idx with
\* k + 1 <= idx < rows, try_remove_uknot(idx) returns Ok and restores the
\* control net and the knot vector, also when x was already a knot;
\* symmetrically in v.
C6_AddRemoveRoundTrip ==
    /\ (call.op = "add_uknot" /\ InRange(uknot_vec(before), call.x)) => URoundTrip
    /\ (call.op = "add_vknot" /\ InRange(vknot_vec(before), call.x)) => VRoundTrip

IsKnot(K, x) == \E i \in 1..Len(K) : K[i] = x

\* the round trip restricted to a knot x that was not in the knot vector
C6_RoundTripNewKnot ==
    /\ (call.op = "add_uknot" /\ InRange(uknot_vec(before), call.x)
        /\ ~IsKnot(uknot_vec(before), call.x)) => URoundTrip
    /\ (call.op = "add_vknot" /\ InRange(vknot_vec(before), call.x)
        /\ ~IsKnot(vknot_vec(before), call.x)) => VRoundTrip

\* the strip rebuilt by try_remove_uknot / try_remove_vknot is not near the
\* strip at idx
\* some choice of four remove_uknot indices brings S back to n u knots
FourRemovesReach(S, n) ==
    \E i1 \in 0..Len(uknot_vec(S)) :
        LET S1 == remove_uknot(S, i1)
        IN  \E i2 \in 0..Len(uknot_vec(S1)) :
                LET S2 == remove_uknot(S1, i2)
                IN  \E i3 \in 0..Len(uknot_vec(S2)) :
                        LET S3r == remove_uknot(S2, i3)
                        IN  \E i4 \in 0..Len(uknot_vec(S3r)) :
                                Len(uknot_vec(remove_uknot(S3r, i4))) = n

\* C7: in scenario S5, after add_uknot(0.0), add_uknot(0.3), add_uknot(0.5),
\* add_uknot(1.0) on S3 the surface equals S3 under near2_as_surface, has 4
\* more u knots, and some four remove_uknot calls bring the u knot vector back
\* to its original length 4.
C7_ScenarioS5 ==
    (s5_calls = Len(S5Adds)) =>
        /\ near2_as_surface(surface, S3)
        /\ Len(uknot_vec(surface)) = Len(uknot_vec(S3)) + 4
        /\ FourRemovesReach(surface, Len(uknot_vec(S3)))

\* the part of scenario S5 about the four insertions alone
C7_AddsPreserveSurface ==
    (s5_calls = Len(S5Adds)) =>
        /\ near2_as_surface(surface, S3)
        /\ Len(uknot_vec(surface)) = Len(uknot_vec(S3)) + 4

\* no four remove_uknot calls made after the four insertions leave fewer than
\* 6 u knots
C7_RemovesStopAtSix ==
    (s5_calls = 2 * Len(S5Adds)) => Len(uknot_vec(surface)) >= 6

UStripDiffers(S, idx) ==
    LET cp == S.control_points
        k == udegree(S)
        Strip(i) == ctrl_pts_column_iter(cp, i)
        Strips == [r \in 1..Len(cp) |-> Strip(r - 1)]
        last == Last(reconstruct(Strips, uknot_vec(S), k, idx, idx - k,
                                 <<Strip(idx - k - 1)>>))
    IN  \E j \in 1..Cols(S) : ~VNear(Strip(idx)[j], last[j])

VStripDiffers(S, idx) ==
    LET cp == S.control_points
        k == vdegree(S)
        Strip(j) == ctrl_pts_row_iter(cp, j)
        Strips == [c \in 1..Len(cp[1]) |-> Strip(c - 1)]
        last == Last(reconstruct(Strips, vknot_vec(S), k, idx, idx - k,
                                 <<Strip(idx - k - 1)>>))
    IN  \E i \in 1..Rows(S) : ~VNear(Strip(idx)[i], last[i])

\* C8: try_remove_uknot(idx) returns Err(CannotRemoveKnot(idx)) for every
\* idx < k + 1 and every idx >= n, and whenever the rebuilt strip is not near
\* the strip at idx; it never panics; symmetrically try_remove_vknot.
C8_RemoveRejects ==
    /\ call.op = "try_remove_uknot" =>
           /\ result.status # "Panic"
           /\ result.status = "Err" => result.err = <<"CannotRemoveKnot", call.idx, 0>>
           /\ (call.idx < udegree(before) + 1 \/ call.idx >= Rows(before)) =>
                  result.status = "Err"
           /\ (call.idx >= udegree(before) + 1 /\ call.idx < Rows(before)
               /\ UStripDiffers(before, call.idx)) => result.status = "Err"
    /\ call.op = "try_remove_vknot" =>
           /\ result.status # "Panic"
           /\ result.status = "Err" => result.err = <<"CannotRemoveKnot", call.idx, 0>>
           /\ (call.idx < vdegree(before) + 1 \/ call.idx >= Cols(before)) =>
                  result.status = "Err"
           /\ (call.idx >= vdegree(before) + 1 /\ call.idx < Cols(before)
               /\ VStripDiffers(before, call.idx)) => result.status = "Err"

\* idx = n, the first index past the rows, on a surface of several rows
C8_Witness ==
    /\ call.op = "try_remove_uknot"
    /\ call.idx = Rows(before)
    /\ Rows(before) >= 2
    /\ result.err = <<"CannotRemoveKnot", call.idx, 0>>

\* C9: when try_remove_uknot / try_remove_vknot returns Err the surface is
\* what it was before the call; remove_uknot / remove_vknot on a knot that
\* cannot be removed leave the surface unchanged.
C9_FailedRemoveUnchanged ==
    /\ (call.op \in {"try_remove_uknot", "try_remove_vknot"} /\ result.status = "Err") =>
           surface = before
    /\ (call.op = "remove_uknot" /\ try_remove_uknot(before, call.idx).status = "Err") =>
           surface = before
    /\ (call.op = "remove_vknot" /\ try_remove_vknot(before, call.idx).status = "Err") =>
           surface = before

\* a removal refused by the comparison of the strips, not by the index guard
C9_Witness ==
    /\ call.op = "remove_uknot"
    /\ call.idx >= udegree(before) + 1
    /\ call.idx < Rows(before)
    /\ try_remove_uknot(before, call.idx).status = "Err"
    /\ surface = before

\* C10: when try_remove_uknot / try_remove_vknot returns Ok, the surface takes
\* the same values as before at every parameter of the domain.
C10_RemovePreservesSubs ==
    (call.op \in {"try_remove_uknot", "try_remove_vknot"} /\ result.status = "Ok") =>
        NearFunction(before, surface)

\* the same for the removal of a knot of multiplicity 1
C10_SimpleKnotRemoval ==
    /\ (call.op = "try_remove_uknot" /\ result.status = "Ok"
        /\ At(uknot_vec(before), call.idx - 1) # At(uknot_vec(before), call.idx)) =>
           NearFunction(before, surface)
    /\ (call.op = "try_remove_vknot" /\ result.status = "Ok"
        /\ At(vknot_vec(before), call.idx - 1) # At(vknot_vec(before), call.idx)) =>
           NearFunction(before, surface)

\* C11: swap_axes turns an n x m net into the m x n net with
\* P'[j][i] = P[i][j] and exchanges the two knot vectors, so the degrees are
\* exchanged as well.
C11_SwapAxesTransposes ==
    call.op = "swap_axes" =>
        /\ Rows(surface) = Cols(before)
        /\ \A j \in 1..Rows(surface) : Len(surface.control_points[j]) = Rows(before)
        /\ \A i \in 1..Rows(before) : \A j \in 1..Cols(before) :
               surface.control_points[j][i] = before.control_points[i][j]
        /\ uknot_vec(surface) = vknot_vec(before)
        /\ vknot_vec(surface) = uknot_vec(before)
        /\ udegree(surface) = vdegree(before)
        /\ vdegree(surface) = udegree(before)

\* a net that is not square, with two different knot vectors and degrees
C11_Witness ==
    /\ call.op = "swap_axes"
    /\ Rows(before) # Cols(before)
    /\ uknot_vec(before) # vknot_vec(before)
    /\ udegree(before) # vdegree(before)
    /\ Rows(surface) = Cols(before)

\* C12: swap_axes applied to the result of swap_axes gives back the knot
\* vectors and the control net of the original surface.
C12_SwapAxesInvolution ==
    call.op = "swap_axes" => swap_axes(surface) = before

C12_Witness ==
    /\ call.op = "swap_axes"
    /\ Rows(before) >= 2
    /\ Cols(before) > Rows(before)
    /\ surface # before
    /\ swap_axes(surface) = before

TotalKnots(S) == Len(uknot_vec(S)) + Len(vknot_vec(S))

\* a pass of optimize ends the loop and removes nothing, or removes a knot
OptimizePassProgress ==
    InOptimize =>
        \/ result'.status = "Self" /\ surface' = surface
        \/ result'.status = "Loop" /\ TotalKnots(surface') < TotalKnots(surface)

\* C13: optimize terminates on every valid surface: each pass of its loop
\* either removes no knot and ends the loop or strictly decreases
\* |Ku| + |Kv|, a natural number, so the loop runs finitely many passes.
C13_OptimizeTerminates == [][OptimizePassProgress]_vars

\* optimize has returned after passes that removed two knots or more
C13_Witness ==
    /\ call.op = "optimize"
    /\ result.status = "Self"
    /\ TotalKnots(surface) + 2 <= TotalKnots(before)

\* the entry [i][j] the claim gives for the u derivative of S, k = udegree(S)
UDerivEntry(S, i, j) ==
    LET P == S.control_points
        n0 == Rows(S)
        k == udegree(S)
        K == uknot_vec(S)
        D == IF i = 0 THEN P[1][j + 1]
             ELSE IF i = n0 THEN VNeg(P[n0][j + 1])
             ELSE VSub(P[i + 1][j + 1], P[i][j + 1])
    IN  VScale(RMul(R(k), inv_or_zero(RSub(At(K, i + k), At(K, i)))), D)

VDerivEntry(S, i, j) ==
    LET P == S.control_points
        n1 == Cols(S)
        k == vdegree(S)
        K == vknot_vec(S)
        D == IF j = 0 THEN P[i + 1][1]
             ELSE IF j = n1 THEN VNeg(P[i + 1][n1])
             ELSE VSub(P[i + 1][j + 1], P[i + 1][j])
    IN  VScale(RMul(R(k), inv_or_zero(RSub(At(K, j + k), At(K, j)))), D)

IsZeroNet(S, n0, n1) ==
    /\ Rows(S) = n0
    /\ \A r \in 1..n0 :
           /\ Len(S.control_points[r]) = n1
           /\ \A c \in 1..n1 : S.control_points[r][c] = VZero(Len(S.control_points[r][c]))

\* C14: for udegree k > 0 uderivation returns the same knot vectors and the
\* (n0+1) x n1 net k * inv_or_zero(Ku[i+k] - Ku[i]) * D[i][j], of udegree
\* k - 1 and the same vdegree; for k = 0 an n0 x n1 zero net with the same
\* knot vectors; vderivation likewise in v; the receiver is not modified.
C14_DerivationNet ==
    /\ call.op = "uderivation" =>
           /\ surface = before
           /\ returned.knot_vecs = before.knot_vecs
           /\ udegree(before) > 0 =>
                  /\ Rows(returned) = Rows(before) + 1
                  /\ \A i \in 0..Rows(before) :
                         /\ Len(returned.control_points[i + 1]) = Cols(before)
                         /\ \A j \in 0..(Cols(before) - 1) :
                                returned.control_points[i + 1][j + 1]
                                    = UDerivEntry(before, i, j)
                  /\ udegree(returned) = udegree(before) - 1
                  /\ vdegree(returned) = vdegree(before)
           /\ udegree(before) = 0 => IsZeroNet(returned, Rows(before), Cols(before))
    /\ call.op = "vderivation" =>
           /\ surface = before
           /\ returned.knot_vecs = before.knot_vecs
           /\ vdegree(before) > 0 =>
                  /\ Rows(returned) = Rows(before)
                  /\ \A i \in 0..(Rows(before) - 1) :
                         /\ Len(returned.control_points[i + 1]) = Cols(before) + 1
                         /\ \A j \in 0..Cols(before) :
                                returned.control_points[i + 1][j + 1]
                                    = VDerivEntry(before, i, j)
                  /\ vdegree(returned) = vdegree(before) - 1
                  /\ udegree(returned) = udegree(before)
           /\ vdegree(before) = 0 => IsZeroNet(returned, Rows(before), Cols(before))

\* degree 1 on several rows, a repeated knot whose denominator is suppressed
\* and a derivative that is not zero past the last row
C14_Witness ==
    /\ call.op = "uderivation"
    /\ udegree(before) >= 1
    /\ Rows(before) >= 2
    /\ \E i \in 0..Rows(before) :
           so_small(RSub(At(uknot_vec(before), i + udegree(before)),
                         At(uknot_vec(before), i)))
    /\ \E j \in 1..Cols(before) :
           returned.control_points[Rows(before) + 1][j] # VZero(1)
    /\ Rows(returned) = Rows(before) + 1

\* C15: homotopy(c0, c1) has the knot vector shared by the co-refined curves
\* in u and [0,0,1,1] in v, one row per control point of the co-refined
\* curves and two columns P[i][0] = c0[i], P[i][1] = c1[i], so vdegree = 1
\* and udegree = the common degree; curves that share degree and knot vector
\* and admit no knot removal keep their control points.
C15_HomotopyNet ==
    call.op = "homotopy" =>
        LET d == corefine(curves[1], curves[2])
            n == Len(d[1].control_points)
        IN  /\ d[1].knot_vec = d[2].knot_vec
            /\ Len(d[2].control_points) = n
            /\ uknot_vec(surface) = d[1].knot_vec
            /\ vknot_vec(surface) = <<R(0), R(0), R(1), R(1)>>
            /\ Rows(surface) = n
            /\ \A i \in 1..n :
                   surface.control_points[i] = <<d[1].control_points[i],
                                                 d[2].control_points[i]>>
            /\ vdegree(surface) = 1
            /\ udegree(surface) = curve_degree(d[1])
            /\ curve_degree(d[1]) = curve_degree(d[2])
            /\ (/\ curve_degree(curves[1]) = curve_degree(curves[2])
                /\ curves[1].knot_vec = curves[2].knot_vec
                /\ curve_optimize(curves[1]) = curves[1]
                /\ curve_optimize(curves[2]) = curves[2]) =>
                   \A i \in 1..Len(curves[1].control_points) :
                       surface.control_points[i] = <<curves[1].control_points[i],
                                                     curves[2].control_points[i]>>

\* two curves of different degree and different knots were co-refined
C15_Witness ==
    /\ call.op = "homotopy"
    /\ curve_degree(curves[1]) # curve_degree(curves[2])
    /\ Rows(surface) > Len(curves[1].control_points)
    /\ surface.control_points[2][1] # surface.control_points[2][2]
    /\ vdegree(surface) = 1

\* C16: by_boundary(c0, c1, c2, c3), with c2 and c3 inverted and (c0, c2),
\* (c1, c3) co-refined, n control points in c0 and m in c3 (n, m >= 2), gives
\* the knot vectors (knots of c0, knots of c3), row 0 = the control points of
\* c3, row n-1 = those of c1, and for 0 < i < n-1: P[i][0] = c0[i],
\* P[i][m-1] = c2[i] and, for 0 < j < m-1,
\* P[i][j] = ((u c0[i] + (1-u) c2[i]) + (v c3[j] + (1-v) c1[j])) / 2
\* with u = i/n and v = j/m.
C16_ByBoundaryNet ==
    call.op = "by_boundary" =>
        LET a == corefine(curves[1], curve_invert(curves[3]))
            b == corefine(curves[2], curve_invert(curves[4]))
            c0 == a[1].control_points
            c2 == a[2].control_points
            c1 == b[1].control_points
            c3 == b[2].control_points
            n == Len(c0)
            m == Len(c3)
            P(i, j) == At(At(surface.control_points, i), j)
            Blend(i, j) ==
                LET u == Rat(i, n)
                    v == Rat(j, m)
                IN  VScale(Rat(1, 2),
                           VAdd(VAdd(VScale(u, At(c0, i)), VScale(RSub(ROne, u), At(c2, i))),
                                VAdd(VScale(v, At(c3, j)), VScale(RSub(ROne, v), At(c1, j)))))
        IN  (n >= 2 /\ m >= 2) =>
              /\ result.status = "Ok"
              /\ surface.knot_vecs = <<a[1].knot_vec, b[2].knot_vec>>
              /\ Rows(surface) = n
              /\ \A i \in 0..(n - 1) : Len(At(surface.control_points, i)) = m
              /\ At(surface.control_points, 0) = c3
              /\ At(surface.control_points, n - 1) = c1
              /\ \A i \in 1..(n - 2) :
                    /\ P(i, 0) = At(c0, i)
                    /\ P(i, m - 1) = At(c2, i)
                    /\ \A j \in 1..(m - 2) : P(i, j) = Blend(i, j)

\* a net with interior points was blended from four co-refined edges
C16_Witness ==
    /\ call.op = "by_boundary"
    /\ result.status = "Ok"
    /\ Rows(surface) >= 3
    /\ Len(surface.control_points[1]) >= 3
    /\ surface.control_points[2][2] # surface.control_points[2][1]
    /\ curves[3] # curves[1]

\* C17: in boundary(), for every valid surface, each edge handed to concat
\* begins where the previous edge ends: edge 1 (translated by range_u) begins
\* at Ku[last], inverted edge 2 (translated by range_u + range_v) begins where
\* edge 1 ends, inverted edge 3 (translated by 2 range_u + range_v) begins
\* where edge 2 ends.
C17_EdgesFollow ==
    call.op = "boundary" =>
        /\ At(curves[2].knot_vec, 0) = Last(uknot_vec(surface))
        /\ At(curves[3].knot_vec, 0) = Last(curves[2].knot_vec)
        /\ At(curves[4].knot_vec, 0) = Last(curves[3].knot_vec)

\* the edges follow one another when both knot vectors begin at the same knot
C17_EdgesFollowSameOrigin ==
    (call.op = "boundary" /\ At(uknot_vec(surface), 0) = At(vknot_vec(surface), 0)) =>
        /\ At(curves[2].knot_vec, 0) = Last(uknot_vec(surface))
        /\ At(curves[3].knot_vec, 0) = Last(curves[2].knot_vec)
        /\ At(curves[4].knot_vec, 0) = Last(curves[3].knot_vec)

\* each edge begins off the end of the previous one by Kv[0] - Ku[0] or Ku[0] - Kv[0]
C17_EdgesOffset ==
    call.op = "boundary" =>
        LET off == RSub(At(vknot_vec(surface), 0), At(uknot_vec(surface), 0))
        IN  /\ RSub(At(curves[2].knot_vec, 0), Last(uknot_vec(surface))) = off
            /\ RSub(At(curves[3].knot_vec, 0), Last(curves[2].knot_vec)) = RSub(RZero, off)
            /\ RSub(At(curves[4].knot_vec, 0), Last(curves[3].knot_vec)) = off

C17_Witness ==
    /\ call.op = "boundary"
    /\ At(uknot_vec(surface), 0) # At(vknot_vec(surface), 0)
    /\ Len(curves) = 5

RightMatrixOps ==
    { "mul_assign_matrix", "mul_assign_matrix_ref", "ref_mul_matrix_ref",
      "ref_mul_matrix", "mul_matrix_ref", "mul_matrix" }

LeftMatrixOps == { "matrix_ref_mul_ref", "matrix_mul_ref", "matrix_ref_mul", "matrix_mul" }

ScalarOps == { "mul_assign", "ref_mul_scalar", "mul_scalar", "scalar_mul_ref" }

\* the operators that take the surface by shared reference
SharedRefOps ==
    { "ref_mul_matrix_ref", "ref_mul_matrix", "matrix_ref_mul_ref", "matrix_mul_ref",
      "ref_mul_scalar", "scalar_mul_ref" }

\* the operator of the last call applied to one control point
Applied(p) ==
    IF call.op \in RightMatrixOps THEN vec_mat(p, Matrices[call.idx])
    ELSE IF call.op \in LeftMatrixOps THEN mat_vec(Matrices[call.idx], p)
    ELSE VScale(call.x, p)

\* C19: every algebraic operator (MulAssign and Mul with a matrix on either
\* side or with a scalar) gives a surface with the knot vectors and the net
\* shape of its operand, each control point being the operator applied to the
\* control point of the operand; the operators taking the surface by shared
\* reference leave it unchanged.
C19_OperatorsPointwise ==
    call.op \in RightMatrixOps \cup LeftMatrixOps \cup ScalarOps =>
        LET out == IF call.op \in SharedRefOps THEN returned ELSE surface
        IN  /\ out.knot_vecs = before.knot_vecs
            /\ Rows(out) = Rows(before)
            /\ \A i \in 1..Rows(before) :
                  /\ Len(out.control_points[i]) = Len(before.control_points[i])
                  /\ \A j \in 1..Len(before.control_points[i]) :
                        out.control_points[i][j] = Applied(before.control_points[i][j])
            /\ call.op \in SharedRefOps => surface = before

\* a quarter turn was applied from the left to a surface taken by reference
C19_Witness ==
    /\ call.op = "matrix_mul_ref"
    /\ call.idx = 1
    /\ surface = before
    /\ returned # surface
    /\ returned # mul_assign_matrix(surface, Matrices[1])

\* C20: knot_normalize on a valid surface does not panic and leaves both knot
\* vectors with first knot 0 and last knot 1, the control net and both degrees
\* as they were; uknot_translate(x) and vknot_translate(x) change the knot
\* vector of their own axis only, the other knot vector and the net are kept.
C20_NormalizeAndTranslate ==
    /\ (call.op = "knot_normalize" /\ Valid(before)) =>
          /\ result.status # "Panic"
          /\ At(uknot_vec(surface), 0) = RZero
          /\ Last(uknot_vec(surface)) = ROne
          /\ At(vknot_vec(surface), 0) = RZero
          /\ Last(vknot_vec(surface)) = ROne
          /\ surface.control_points = before.control_points
          /\ udegree(surface) = udegree(before)
          /\ vdegree(surface) = vdegree(before)
    /\ call.op = "uknot_translate" =>
          /\ vknot_vec(surface) = vknot_vec(before)
          /\ surface.control_points = before.control_points
          /\ Len(uknot_vec(surface)) = Len(uknot_vec(before))
          /\ \A i \in 1..Len(uknot_vec(before)) :
                uknot_vec(surface)[i] = RAdd(uknot_vec(before)[i], call.x)
    /\ call.op = "vknot_translate" =>
          /\ uknot_vec(surface) = uknot_vec(before)
          /\ surface.control_points = before.control_points
          /\ Len(vknot_vec(surface)) = Len(vknot_vec(before))
          /\ \A i \in 1..Len(vknot_vec(before)) :
                vknot_vec(surface)[i] = RAdd(vknot_vec(before)[i], call.x)

\* a surface whose v knots began at 1 with range 2 and had an inner knot was normalised
C20_Witness ==
    /\ call.op = "knot_normalize"
    /\ Valid(before)
    /\ At(vknot_vec(before), 0) # RZero
    /\ range_length(vknot_vec(before)) = R(2)
    /\ range_length(uknot_vec(before)) = R(2)
    /\ \E i \in 1..Len(uknot_vec(surface)) : uknot_vec(surface)[i] = Rat(1, 2)

\* a translation of the u knots of a surface whose knot vectors differ
C20_WitnessTranslate ==
    /\ call.op = "uknot_translate"
    /\ uknot_vec(surface) # uknot_vec(before)
    /\ uknot_vec(before) # vknot_vec(before)

\* ------------------------------------------------------------------------
\* C21, C22: the derive macros
\* ------------------------------------------------------------------------
DerivedCall(data) ==
    /\ derived.status = "Ok"
    /\ derived.input.data = data
    /\ derived.call.method # 0

\* C21: a method derived for an enum calls the same method of the same trait
\* on the payload of the receiver's variant, with the payload first and the
\* method's arguments after it in their order; it returns the payload's
\* result as it is unless the method returns Self, and then it returns that
\* result wrapped in the variant of the receiver.
C21_EnumDispatch ==
    DerivedCall("Enum") =>
        LET c == derived.call
            m == methods(derived.macro)[c.method]
        IN  /\ c.invoked.trait = m.trait_name
            /\ c.invoked.name = m.name
            /\ c.invoked.args = <<c.receiver.payload>> \o m.fields
            /\ c.output.value = c.invoked
            /\ c.output.variant =
                   IF m.return_type = "Self" THEN c.receiver.variant ELSE NoIdent

\* Cut::cut was called on the second variant of an enum and came back in it
C21_Witness ==
    /\ DerivedCall("Enum")
    /\ derived.macro = "Cut"
    /\ derived.call.receiver.variant = "B"
    /\ derived.call.output.variant = "B"
    /\ derived.call.invoked.args = <<derived.call.receiver.payload, "t">>

\* a method that does not return Self was called on an enum with a named field
C21_WitnessUnwrapped ==
    /\ DerivedCall("Enum")
    /\ derived.macro = "ParametricSurface3D"
    /\ derived.call.invoked.name = "normal"
    /\ derived.input.variants[1].fields = <<"inner">>
    /\ derived.call.output.variant = NoIdent

\* C22: a method derived for a newtype calls the method of the same name on
\* the inner value, with the same arguments, the very method the expansion
\* for an enum calls.
C22_NewtypeDelegatesSameMethod ==
    DerivedCall("Struct") =>
        LET c == derived.call
            m == methods(derived.macro)[c.method]
        IN  /\ c.invoked.name = derived.impl[c.method].name
            /\ c.invoked.name = m.name
            /\ c.invoked.args = <<c.receiver.payload>> \o m.fields

\* ------------------------------------------------------------------------
\* C23, C24: the passes of optimize
\* ------------------------------------------------------------------------
\* the indices n - 1 down to 0 of one axis
RECURSIVE FromTheBack(_, _)
FromTheBack(axis, n) ==
    IF n = 0 THEN <<>> ELSE << <<axis, n - 1>> >> \o FromTheBack(axis, n - 1)

OptimizeAttemptsEveryIndex ==
    InOptimize =>
        call'.attempts = FromTheBack("u", Len(uknot_vec(surface)))
                         \o FromTheBack("v", Len(vknot_vec(surface)))

\* C23: every pass of optimize calls try_remove_uknot at each index n0 - 1
\* down to 0 and then try_remove_vknot at each index n1 - 1 down to 0, n0 and
\* n1 the knot counts at the start of the pass, also after an attempt of the
\* pass has succeeded.
C23_EveryIndexAttempted == [][OptimizeAttemptsEveryIndex]_vars

\* what the passes do: the attempts run from the back up to and including
\* the first one that succeeds, and there are no more in that pass
OptimizeAttemptsUntilRemoval ==
    InOptimize =>
        LET all == FromTheBack("u", Len(uknot_vec(surface)))
                   \o FromTheBack("v", Len(vknot_vec(surface)))
        IN  /\ call'.attempts = SubSeq(all, 1, Len(call'.attempts))
            /\ Len(call'.attempts) >= 1
            /\ (result'.status = "Self") = (surface' = surface)
            /\ result'.status = "Self" => call'.attempts = all
            /\ result'.status = "Loop" =>
                   LET a == Last(call'.attempts)
                   IN  surface' = IF a[1] = "u" THEN try_remove_uknot(surface, a[2]).surface
                                  ELSE try_remove_vknot(surface, a[2]).surface

C23_AttemptsUntilRemoval == [][OptimizeAttemptsUntilRemoval]_vars

\* a pass removed a knot before it had reached index 0 of the u axis
C23_Witness ==
    /\ InOptimize
    /\ Len(call.attempts) >= 1
    /\ Len(call.attempts) < Len(uknot_vec(surface)) + 1

\* C24: when optimize has returned no knot can be removed: try_remove_uknot
\* fails at every index of the u knot vector and try_remove_vknot at every
\* index of the v knot vector, and a second optimize leaves the surface as
\* it is.
C24_OptimizeFixpoint ==
    (call.op = "optimize" /\ result.status = "Self") =>
        /\ \A i \in 0..(Len(uknot_vec(surface)) - 1) :
               try_remove_uknot(surface, i).status = "Err"
        /\ \A j \in 0..(Len(vknot_vec(surface)) - 1) :
               try_remove_vknot(surface, j).status = "Err"
        /\ optimize(surface) = surface

\* optimize has returned a surface with fewer knots in both axes
C24_Witness ==
    /\ call.op = "optimize"
    /\ result.status = "Self"
    /\ Len(uknot_vec(surface)) < Len(uknot_vec(before))
    /\ Len(vknot_vec(surface)) < Len(vknot_vec(before))

\* ------------------------------------------------------------------------
\* C25: knot insertion against Boehm's formula
\* ------------------------------------------------------------------------
\* strip i of old, the zero strip at i = -1 and i = n
BoehmOld(old, i, zero) ==
    IF i < 0 \/ i >= Len(old) THEN zero ELSE At(old, i)

\* strip i of the net after x has been inserted into K0 (degree k, x not
\* left of the first knot)
BoehmStrip(old, K0, k, x, i, zero) ==
    LET n == Len(old)
        idx == add_knot_idx(K0, x)
        a == RMul(RSub(x, At(K0, i)), inv_or_zero(RSub(At(K0, i + k), At(K0, i))))
    IN  IF i < idx - k THEN BoehmOld(old, i, zero)
        ELSE IF i < idx /\ i < n + 1
        THEN [j \in 1..Len(zero) |->
                 VAdd(VScale(a, BoehmOld(old, i, zero)[j]),
                      VScale(RSub(ROne, a), BoehmOld(old, i - 1, zero)[j]))]
        ELSE BoehmOld(old, i - 1, zero)

BoehmNet(old, K0, k, x, zero) ==
    IF RLt(x, At(K0, 0)) THEN <<zero>> \o old
    ELSE [r \in 1..(Len(old) + 1) |-> BoehmStrip(old, K0, k, x, r - 1, zero)]

Transposed(cp) == [c \in 1..Len(cp[1]) |-> [r \in 1..Len(cp) |-> cp[r][c]]]

C25_WitnessColumn ==
    /\ call.op = "add_vknot"
    /\ RLt(Last(vknot_vec(before)), call.x)
    /\ Cols(surface) = Cols(before) + 1

\* add_uknot inserted a knot left of every knot
C25_WitnessFront ==
    /\ call.op = "add_uknot"
    /\ RLt(call.x, At(uknot_vec(before), 0))
    /\ Rows(surface) = Rows(before) + 1

\* ------------------------------------------------------------------------
\* C26, C27, C28: the comparison by samples
\* ------------------------------------------------------------------------
Compared == call.op \in NearVariants

\* the comparison each of the four functions hands to sub_near_as_surface
Pred(op, x, y) ==
    CASE op = "near_as_surface" -> VNear(x, y)
      [] op = "near2_as_surface" -> VNear2(x, y)
      [] op = "near_as_projected_surface" ->
             VNear(rational_projection(x), rational_projection(y))
      [] op = "near2_as_projected_surface" ->
             VNear2(rational_projection(x), rational_projection(y))

\* the spans of K that are not so_small, by the index of their right knot
Spans(K) == { i \in 1..(Len(K) - 1) : ~so_small(RSub(At(K, i), At(K, i - 1))) }

\* K[i-1] + (K[i] - K[i-1]) * j / D for every span i of K and every j in 0..D-1
SpanSamplesOf(K, D) ==
    { RAdd(At(K, i - 1), RMul(RSub(At(K, i), At(K, i - 1)), Rat(j, D))) :
        i \in Spans(K), j \in 0..(D - 1) }

SamplesU(S, other, op) ==
    SpanSamplesOf(uknot_vec(S), DivCoef(op) * Max(udegree(S), udegree(other)))

SamplesV(S, other, op) ==
    SpanSamplesOf(vknot_vec(S), DivCoef(op) * Max(vdegree(S), vdegree(other)))

FirstKnotsAndRangesNear(S, other) ==
    /\ near(At(uknot_vec(S), 0), At(uknot_vec(other), 0))
    /\ near(range_length(uknot_vec(S)), range_length(uknot_vec(other)))
    /\ near(At(vknot_vec(S), 0), At(vknot_vec(other), 0))
    /\ near(range_length(vknot_vec(S)), range_length(vknot_vec(other)))

\* C26: a comparison returns true exactly when the first knots and the range
\* lengths of the two surfaces are near in each axis and pred holds at every
\* sample (u, v), u = Ku[i-1] + (Ku[i] - Ku[i-1]) * j / Du over the spans of
\* self's u knot vector that are not so_small and j in 0..Du-1, v likewise,
\* Du = coef * max of the two u degrees, Dv = coef * max of the two v degrees;
\* j = 0 is the left knot of the span, no sample is the right end of the
\* domain, and the spans are those of self's knot vectors.
C26_SampleComparison ==
    Compared =>
        LET US == SamplesU(surface, Other, call.op)
            VS == SamplesV(surface, Other, call.op)
        IN  /\ (result.status = "true") <=>
                   /\ FirstKnotsAndRangesNear(surface, Other)
                   /\ \A u \in US : \A v \in VS :
                          Pred(call.op, subs(surface, u, v), subs(Other, u, v))
            /\ \A u \in US : RLt(u, Last(uknot_vec(surface)))
            /\ \A v \in VS : RLt(v, Last(vknot_vec(surface)))
            /\ US # {} => \A i \in Spans(uknot_vec(surface)) : At(uknot_vec(surface), i - 1) \in US
            /\ VS # {} => \A i \in Spans(vknot_vec(surface)) : At(vknot_vec(surface), i - 1) \in VS

\* a comparison returned false although the knot ranges agree and the
\* surfaces agree at both ends of the u range: they differ at a sample inside
C26_Witness ==
    /\ Compared
    /\ result.status = "false"
    /\ FirstKnotsAndRangesNear(surface, Other)
    /\ Cardinality(SamplesU(surface, Other, call.op)) >= 2
    /\ uknot_vec(surface) # uknot_vec(Other)

\* a comparison returned true on surfaces with different knot vectors
C26_WitnessTrue ==
    /\ Compared
    /\ result.status = "true"
    /\ uknot_vec(surface) # uknot_vec(Other)
    /\ SamplesU(surface, Other, call.op) # {}
    /\ SamplesV(surface, Other, call.op) # {}

\* C27: near_as_surface and near2_as_surface are symmetric: the comparison of
\* a with b returns what the comparison of b with a returns, also when the
\* knot vectors of a and b differ over the same range.
C27_NearSymmetric ==
    (Compared /\ call.op \in {"near_as_surface", "near2_as_surface"}) =>
        (result.status = "true") = near_call(call.op, Other, surface)

\* the comparison is symmetric between surfaces of equal knot vectors
C27_NearSymmetricSameKnots ==
    (/\ Compared
     /\ call.op \in {"near_as_surface", "near2_as_surface"}
     /\ surface.knot_vecs = Other.knot_vecs) =>
        (result.status = "true") = near_call(call.op, Other, surface)

C27_Witness ==
    /\ Compared
    /\ call.op = "near_as_surface"
    /\ surface.knot_vecs = Other.knot_vecs
    /\ surface # Other
    /\ result.status = "false"

\* C28: when near_as_surface returns true the two surfaces are near at the
\* lower corner (Ku[0], Kv[0]) of the parameter domain, whatever the degrees.
C28_TrueComparesLowerCorner ==
    (Compared /\ call.op = "near_as_surface" /\ result.status = "true") =>
        VNear(subs(surface, At(uknot_vec(surface), 0), At(vknot_vec(surface), 0)),
              subs(Other, At(uknot_vec(surface), 0), At(vknot_vec(surface), 0)))

\* it does when each axis has a sample, that is when in each axis one of the
\* two surfaces has a positive degree
C28_TrueComparesLowerCornerPositiveDegrees ==
    (/\ Compared
     /\ call.op = "near_as_surface"
     /\ result.status = "true"
     /\ Max(udegree(surface), udegree(Other)) >= 1
     /\ Max(vdegree(surface), vdegree(Other)) >= 1) =>
        VNear(subs(surface, At(uknot_vec(surface), 0), At(vknot_vec(surface), 0)),
              subs(Other, At(uknot_vec(surface), 0), At(vknot_vec(surface), 0)))

C28_Witness ==
    /\ Compared
    /\ call.op = "near_as_surface"
    /\ result.status = "true"
    /\ surface # Other
    /\ Max(udegree(surface), udegree(Other)) >= 1
    /\ Max(vdegree(surface), vdegree(Other)) >= 1

\* ------------------------------------------------------------------------
\* C29, C30: the shape of by_boundary and its edges
\* ------------------------------------------------------------------------
\* the co-refined (curve0, inverted curve2) and (curve1, inverted curve3) of
\* the last by_boundary
CorefinedEdges ==
    CHOOSE e \in { <<co[1][1], co[2][1], co[1][2], co[2][2]>> :
                   co \in {[k \in {1, 2} |->
                              corefine(curves[k], curve_invert(curves[k + 2]))]} } : TRUE

ByBoundaryCalled == call.op \in {"by_boundary", "splitted_boundary"}

ShapeOf(e) ==
    /\ result.status # "Panic"
    /\ Rows(surface) = Len(e[1].control_points)
    /\ \A i \in 1..Rows(surface) : Len(surface.control_points[i]) = Len(e[4].control_points)
    /\ udegree(surface) = curve_degree(e[1])
    /\ vdegree(surface) = curve_degree(e[4])

\* C29: by_boundary returns, without panicking, a surface of n rows and m
\* columns, n and m the numbers of control points of the co-refined curve0
\* and curve3, so of the degrees of these two curves; for every n >= 1 and
\* m >= 1.
C29_ByBoundaryShape ==
    ByBoundaryCalled => \E e \in {CorefinedEdges} : ShapeOf(e)

\* it does when the co-refined curves have two control points or more
C29_ByBoundaryShapeFromTwo ==
    ByBoundaryCalled =>
        \E e \in {CorefinedEdges} :
            (Len(e[1].control_points) >= 2 /\ Len(e[4].control_points) >= 2) => ShapeOf(e)

C29_Witness ==
    /\ call.op = "by_boundary"
    /\ result.status = "Ok"
    /\ Rows(surface) >= 3
    /\ Cols(surface) = 2

\* the co-refined curves meet at the four corners
CornersMeet(e) ==
    /\ e[4].control_points[1] = e[1].control_points[1]
    /\ Last(e[4].control_points) = e[3].control_points[1]
    /\ e[2].control_points[1] = Last(e[1].control_points)
    /\ Last(e[2].control_points) = Last(e[3].control_points)

\* C30: when the co-refined curves (curve2 and curve3 inverted) meet at the
\* four corners, splitted_boundary of the surface by_boundary made returns
\* these four curves, in the order c0, c1, c2, c3, with their control points
\* and knot vectors.
C30_EdgesGivenBack ==
    ByBoundaryCalled =>
        \E e \in {CorefinedEdges} :
            CornersMeet(e) =>
                /\ result.status # "Panic"
                /\ call.op = "splitted_boundary" => SubSeq(curves, 5, 8) = e

\* they are given back when the co-refined curves have two control points
\* or more
C30_EdgesGivenBackFromTwo ==
    ByBoundaryCalled =>
        \E e \in {CorefinedEdges} :
            (/\ CornersMeet(e)
             /\ Len(e[1].control_points) >= 2
             /\ Len(e[4].control_points) >= 2) =>
                /\ result.status # "Panic"
                /\ call.op = "splitted_boundary" => SubSeq(curves, 5, 8) = e

\* the edges of a surface of three rows made from edges meeting at the
\* corners were split off
C30_Witness ==
    /\ call.op = "splitted_boundary"
    /\ Rows(surface) >= 3
    /\ \E e \in {CorefinedEdges} : CornersMeet(e) /\ SubSeq(curves, 5, 8) = e

====
